---- MODULE Spec2Model ----
(***************************************************************************)
(* packt: generator, text codec, validator and evaluator of 2-D rectangle  *)
(* packing problems (packt-core/src/{geometry,problem,solution}.rs), the   *)
(* solver invocation (runner.rs, bin/solver.rs) and the workspace of the   *)
(* GTK front end with its worker thread (packt-gtk/src/view/workspace.rs). *)
(*                                                                         *)
(* Machine integers.  Rust's u32 / u64 / i64 are kept as fixed-width       *)
(* words, scaled down to U32_BITS / 2*U32_BITS bits so that the words fit  *)
(* the model checker's integers; the arithmetic is the source's, modulo    *)
(* the word size.  An overflowing `+`/`-` panics in a build with overflow  *)
(* checks (cargo's dev profile) and wraps in one without (the release      *)
(* profile); `build` records which of the two the program was built as.    *)
(***************************************************************************)
EXTENDS Integers, Sequences, FiniteSets, TLC

VARIABLES
    build,        \* "debug" (overflow panics) or "release" (overflow wraps)
    \* ---- Generator ----
    generator,    \* the Generator: its four optional settings
    \* ---- Problem::generate_from ----
    g_r,          \* argument r: the source rectangle
    g_n,          \* argument n: the number of rectangles asked for
    g_v,          \* argument v: the variant
    g_rot,        \* argument allow_rotation
    rectangles,   \* the local Vec<Rectangle>: the working set
    layout,       \* ghost: layout[i] is the bottom-left cell of rectangles[i] in the source
    gpc,          \* position in generate_from: "enter", "loop", "returned", "panicked"
    problem,      \* Option<Problem>: <<>> until generate_from has returned
    \* ---- Solution ----
    output,       \* the placement lines a solver wrote, paired with the rectangles it echoed
    origin,       \* the Problem handed to Solution::source
    solution,     \* Option<Solution>
    spc,          \* position of the harness: "idle", "parsed", "evaluated", "panicked"
    evaluation,   \* the Result<Evaluation> of Solution::evaluate
    \* ---- Problem text codec ----
    c_problem,    \* the Problem that is formatted
    c_text,       \* Option<text>: the output of Display
    c_parsed,     \* Option<Result<Problem>>: the output of FromStr
    cpc,          \* "new", "formatted", "parsed"; "output", "solution" for a solver's text
    \* ---- bin/solver.rs main ----
    m_input,      \* Option<text>: what the input holds, None when it cannot be read
    m_filename,   \* the file name of the input, "" for standard input
    m_pc,         \* "start", "solving", "exited" (status 0), "failed" (an error returned), "panicked"
    m_problem,    \* Option<Problem>: the parsed input
    m_records,    \* the records written to the output
    e_retries,    \* the first parameter list supplied from outside (main reads none)
    e_candidates, \* the second parameter list supplied from outside
    \* ---- runner.rs solve_async ----
    r_pc,         \* "idle", "lazy", "writing", "waiting", "resolved", "panicked"
    r_child,      \* the child process: "none", "running", "exited", "killed"
    r_timer,      \* the timer set to start + delta has fired
    r_late,       \* ghost: the timer fired while the child had not exited
    r_stdout,     \* Option<text>: what the child wrote before it exited
    r_result,     \* Option<Result<Evaluation>>: what the future resolved to
    r_parsed,     \* the output was handed to the parser
    \* ---- packt-gtk workspace.rs: WorkspaceWidget and the worker of launch_runner ----
    w_problems,    \* model.problems: VecDeque<Entry>
    w_selected,    \* model.selected: VecDeque<Entry>
    w_problems_lb, \* widgets.problems_lb: the labels of its rows, top to bottom
    w_selected_lb, \* widgets.selected_lb
    w_run_btn,     \* widgets.run_btn is sensitive
    w_added,       \* ghost: the number of entries added so far
    w_solver,      \* widgets.solver_chooser holds a file name
    w_running,     \* model.running: u32
    w_last,        \* the outcome of the last update(): "ok" or the error it emitted
    w_queue,       \* the channel work_queue: the jobs sent and not yet received
    w_worker,      \* the worker thread: "idle" (in rx.iter()), "busy" (in core.run), "dead"
    w_job,         \* Option<Job>: the job the worker is running
    w_stream,      \* the Completed messages emitted and not yet handled by update()
    w_sent,        \* ghost: the jobs sent, in the order of the sends
    w_started,     \* ghost: the jobs the worker received, in order
    w_emitted,     \* ghost: the jobs whose Completed was emitted, in order
    w_handled      \* ghost: the jobs whose Completed update() has handled, in order

vars == <<build, generator, g_r, g_n, g_v, g_rot, rectangles, layout, gpc, problem,
          output, origin, solution, spc, evaluation,
          c_problem, c_text, c_parsed, cpc,
          m_input, m_filename, m_pc, m_problem, m_records, e_retries, e_candidates,
          r_pc, r_child, r_timer, r_late, r_stdout, r_result, r_parsed,
          w_problems, w_selected, w_problems_lb, w_selected_lb, w_run_btn, w_added,
          w_solver, w_running, w_last, w_queue, w_worker, w_job, w_stream,
          w_sent, w_started, w_emitted, w_handled>>

genVars == <<generator, g_r, g_n, g_v, g_rot, rectangles, layout, gpc, problem>>
solVars == <<output, origin, solution, spc, evaluation>>
codecVars == <<c_problem, c_text, c_parsed, cpc>>
runVars == <<m_input, m_filename, m_pc, m_problem, m_records, e_retries, e_candidates,
             r_pc, r_child, r_timer, r_late, r_stdout, r_result, r_parsed>>
listVars == <<w_problems, w_selected, w_problems_lb, w_selected_lb, w_run_btn, w_added>>
gateVars == <<w_solver, w_running>>
workerVars == <<w_queue, w_worker, w_job, w_stream>>
logVars == <<w_sent, w_started, w_emitted, w_handled>>
guiVars == <<listVars, gateVars, w_last, workerVars, logVars>>
otherVars == <<build, genVars, solVars, codecVars, runVars>>

-----------------------------------------------------------------------------
(* Bounds of the model *)

U32_BITS == 4        \* bits of the scaled-down u32 word
MaxSide == 3         \* largest width and height of a generator source
MaxN == 4            \* largest number of rectangles asked of the generator
MaxPlacements == 2   \* most placement lines of a solver output
MaxRects == 2        \* most rectangles of a Problem that is formatted

U32_MAX == 2^U32_BITS - 1
U64_MAX == 2^(2 * U32_BITS) - 1
I64_MAX == 2^(2 * U32_BITS - 1) - 1

Builds == {"debug", "release"}

\* a + b or a - b on u32 without overflow checks
wrapping32(n) == n % (U32_MAX + 1)
\* the same on u64
wrapping64(n) == n % (U64_MAX + 1)
\* `n as i64` for a u64 n: two's complement reinterpretation
as_i64(n) == IF n > I64_MAX THEN n - (U64_MAX + 1) ELSE n

None == <<>>
Some(x) == <<x>>
IsSome(o) == o # <<>>
Unwrap(o) == o[1]

\* Result<T>: Ok(v) or Err(e); Panic(m) where the call does not return
Ok(v) == [tag |-> "Ok", val |-> v, msg |-> ""]
Err(m) == [tag |-> "Err", val |-> <<>>, msg |-> m]
Panic(m) == [tag |-> "Panic", val |-> <<>>, msg |-> m]

-----------------------------------------------------------------------------
(* geometry.rs *)

Point_new(x, y) == [x |-> x, y |-> y]

Rectangle_new(width, height) ==
    [width |-> width, height |-> height, area |-> height * width]

Rectangle_area(r) == r.area

Normal == "Normal"
Rotated == "Rotated"
Rotations == {Normal, Rotated}

Horizontal(y) == [axis |-> "Horizontal", at |-> y]
Vertical(x) == [axis |-> "Vertical", at |-> x]

\* mutant of Rectangle::split: the horizontal cut keeps the full height in r2
Rectangle_split_keeps_height(self, sp) ==
    LET w == self.width
        h == self.height
    IN  IF sp.axis = "Horizontal"
        THEN <<Rectangle_new(w, h - sp.at), Rectangle_new(w, h)>>
        ELSE <<Rectangle_new(w - sp.at, h), Rectangle_new(sp.at, h)>>

\* mutant of Rectangle::split: the vertical cut gives both pieces the width x
Rectangle_split_twice_x(self, sp) ==
    LET w == self.width
        h == self.height
    IN  IF sp.axis = "Horizontal"
        THEN <<Rectangle_new(w, h - sp.at), Rectangle_new(w, sp.at)>>
        ELSE <<Rectangle_new(sp.at, h), Rectangle_new(sp.at, h)>>

\* Rectangle::split: the pair (r1, r2)
Rectangle_split(self, sp) ==
    LET w == self.width
        h == self.height
    IN  IF sp.axis = "Horizontal"
        THEN <<Rectangle_new(w, h - sp.at), Rectangle_new(w, sp.at)>>
        ELSE <<Rectangle_new(w - sp.at, h), Rectangle_new(sp.at, h)>>

\* mutant of Rectangle::simple_rsplit: the cut may be drawn at 0
simple_rsplit_cuts_from_zero(self) ==
    {Vertical(x) : x \in 0..(self.width - 1)} \cup
    {Horizontal(y) : y \in 0..(self.height - 1)}

\* Rectangle::simple_rsplit: the cuts rng can draw; {} where the match panics.
\* In the last arm w + h is a u32 sum: with overflow checks it panics, without
\* them it wraps to s = w + h - 2^32 < w, so gen_range(0, s) < w always (and
\* gen_range(0, 0) panics).
simple_rsplit_cuts(self) ==
    LET w == self.width
        h == self.height
        vs == {Vertical(x) : x \in 1..(w - 1)}
        hs == {Horizontal(y) : y \in 1..(h - 1)}
    IN  IF w = 1 /\ h = 1 THEN {}
        ELSE IF w = 1 /\ h > 1 THEN hs
        ELSE IF h = 1 /\ w > 1 THEN vs
        ELSE IF w > 1 /\ h > 1
             THEN IF w + h <= U32_MAX THEN vs \cup hs
                  ELSE IF build = "debug" \/ wrapping32(w + h) = 0 THEN {}
                  ELSE vs
        ELSE {}

\* the extent (width, height) a placement of r occupies under a rotation
Placement_extent(r, rotation) ==
    IF rotation = Normal THEN <<r.width, r.height>> ELSE <<r.height, r.width>>

\* `a + b - 1` on u32, evaluated left to right: does either step overflow?
add_sub1_overflows(a, b) == a + b > U32_MAX \/ a + b = 0
add_sub1(a, b) == wrapping32(wrapping32(a + b) - 1)

\* Placement::new: does `bottom_left.x + width - 1` or `.y + height - 1` overflow?
Placement_new_overflows(r, rotation, bottom_left) ==
    LET e == Placement_extent(r, rotation)
    IN  \/ add_sub1_overflows(bottom_left.x, e[1])
        \/ add_sub1_overflows(bottom_left.y, e[2])

\* mutant of Placement::new: the exclusive convention, top_right = bottom_left + extent
Placement_new_exclusive(r, rotation, bottom_left) ==
    LET e == Placement_extent(r, rotation)
    IN  [rectangle |-> r, rotation |-> rotation, bottom_left |-> bottom_left,
         top_right |-> Point_new(wrapping32(bottom_left.x + e[1]),
                                 wrapping32(bottom_left.y + e[2]))]

\* Placement::new (the value built where no overflow check stops it)
Placement_new(r, rotation, bottom_left) ==
    LET e == Placement_extent(r, rotation)
        x_max == add_sub1(bottom_left.x, e[1])
        y_max == add_sub1(bottom_left.y, e[2])
    IN  [rectangle |-> r, rotation |-> rotation,
         bottom_left |-> bottom_left, top_right |-> Point_new(x_max, y_max)]

\* mutant of Placement::overlaps: the last comparison is left out
Placement_overlaps_one_sided(self, rhs) ==
    /\ rhs.bottom_left.y <= self.top_right.y
    /\ rhs.bottom_left.x <= self.top_right.x
    /\ self.bottom_left.y <= rhs.top_right.y

\* Placement::overlaps
Placement_overlaps(self, rhs) ==
    /\ rhs.bottom_left.y <= self.top_right.y
    /\ rhs.bottom_left.x <= self.top_right.x
    /\ self.bottom_left.y <= rhs.top_right.y
    /\ self.bottom_left.x <= rhs.top_right.x

\* the workspace, for the specifications that leave it out
GuiUnused ==
    /\ w_problems = <<>>
    /\ w_selected = <<>>
    /\ w_problems_lb = <<>>
    /\ w_selected_lb = <<>>
    /\ w_run_btn = FALSE
    /\ w_added = 0
    /\ w_solver = FALSE
    /\ w_running = 0
    /\ w_last = "unused"
    /\ w_queue = <<>>
    /\ w_worker = "unused"
    /\ w_job = None
    /\ w_stream = <<>>
    /\ w_sent = <<>>
    /\ w_started = <<>>
    /\ w_emitted = <<>>
    /\ w_handled = <<>>

\* the solver binary and the runner, for the specifications that leave them out
RunUnused ==
    /\ m_input = None
    /\ m_filename = ""
    /\ m_pc = "unused"
    /\ m_problem = None
    /\ m_records = <<>>
    /\ e_retries = <<>>
    /\ e_candidates = <<>>
    /\ r_pc = "unused"
    /\ r_child = "none"
    /\ r_timer = FALSE
    /\ r_late = FALSE
    /\ r_stdout = None
    /\ r_result = None
    /\ r_parsed = FALSE

-----------------------------------------------------------------------------
(* problem.rs: Variant, Problem, Problem::generate_from *)

Free == [tag |-> "Free", h |-> 0]
Fixed(k) == [tag |-> "Fixed", h |-> k]

Problem(variant, allow_rotation, rects, source) ==
    [variant |-> variant, allow_rotation |-> allow_rotation,
     rectangles |-> rects, source |-> source]

\* Generator::new: no setting made
Generator_new ==
    [container |-> None, rectangles |-> None, variant |-> None, allow_rotation |-> None]

\* mutant of swap_remove: the element is read but left in the vector
swap_remove_keeps(v, i) == v

\* Vec::swap_remove(i): element i is replaced by the last element
swap_remove(v, i) ==
    [j \in 1..(Len(v) - 1) |-> IF j = i THEN v[Len(v)] ELSE v[j]]

\* ghost: where the two pieces of a cut lie, the first piece keeping the
\* bottom-left cell of the rectangle that was cut, the second one laid
\* against it (above it for a horizontal cut, right of it for a vertical one)
split_layout(at, self, sp) ==
    IF sp.axis = "Horizontal"
    THEN <<at, Point_new(at.x, at.y + (self.height - sp.at))>>
    ELSE <<at, Point_new(at.x + (self.width - sp.at), at.y)>>

\* ghost: the cells of a w x h source in row-major order (the n == a case,
\* where generate_from returns unit squares without cutting)
unit_layout(r) ==
    [k \in 1..(r.width * r.height) |->
        Point_new((k - 1) % r.width, (k - 1) \div r.width)]

\* generate_from, lines 27-42: the panic, the n == a short cut, the seeding
GenerateFrom_Enter ==
    /\ gpc = "enter"
    /\ LET a == Rectangle_area(g_r)
       IN  IF g_n > a
           THEN /\ gpc' = "panicked"
                /\ UNCHANGED <<rectangles, layout, problem>>
           ELSE IF g_n = a
           THEN /\ rectangles' = [k \in 1..g_n |-> Rectangle_new(1, 1)]
                /\ layout' = unit_layout(g_r)
                /\ problem' = Some(Problem(g_v, g_rot,
                                   [k \in 1..g_n |-> Rectangle_new(1, 1)], None))
                /\ gpc' = "returned"
           ELSE /\ rectangles' = <<g_r>>
                /\ layout' = <<Point_new(0, 0)>>
                /\ gpc' = "loop"
                /\ UNCHANGED problem
    /\ UNCHANGED <<build, guiVars, runVars, generator, g_r, g_n, g_v, g_rot>>
    /\ UNCHANGED <<solVars, codecVars>>

\* generate_from, lines 44-55: one iteration of the while loop
GenerateFrom_Loop ==
    /\ gpc = "loop"
    /\ Len(rectangles) < g_n
    /\ \E i \in 1..Len(rectangles) :
         LET r == rectangles[i]
             at == layout[i]
             rest == swap_remove(rectangles, i)
             lrest == swap_remove(layout, i)
         IN  IF r.width > 1 \/ r.height > 1
             THEN IF simple_rsplit_cuts(r) = {}
                  THEN /\ gpc' = "panicked"
                       /\ rectangles' = rest
                       /\ layout' = lrest
                  ELSE \E cut \in simple_rsplit_cuts(r) :
                         LET rs == Rectangle_split(r, cut)
                             ls == split_layout(at, r, cut)
                         IN  /\ rectangles' = rest \o <<rs[1], rs[2]>>
                             /\ layout' = lrest \o <<ls[1], ls[2]>>
                             /\ gpc' = "loop"
             ELSE /\ rectangles' = Append(rest, r)
                  /\ layout' = Append(lrest, at)
                  /\ gpc' = "loop"
    /\ UNCHANGED <<build, guiVars, runVars, generator, g_r, g_n, g_v, g_rot, problem>>
    /\ UNCHANGED <<solVars, codecVars>>

\* generate_from, lines 44 and 57-62: the loop ends, the Problem is returned
GenerateFrom_Return ==
    /\ gpc = "loop"
    /\ ~(Len(rectangles) < g_n)
    /\ problem' = Some(Problem(g_v, g_rot, rectangles, Some(g_r)))
    /\ gpc' = "returned"
    /\ UNCHANGED <<build, guiVars, runVars, generator, g_r, g_n, g_v, g_rot, rectangles, layout>>
    /\ UNCHANGED <<solVars, codecVars>>

-----------------------------------------------------------------------------
(* problem.rs, geometry.rs: Display and FromStr.  A text is the sequence of *)
(* its lines (str::lines), a line the sequence of its whitespace-separated  *)
(* tokens, a token a word or a string of decimal digits.                    *)

Word(s) == [w |-> s, d |-> <<>>]
Numeral(ds) == [w |-> "", d |-> ds]

\* Display for an unsigned integer: its decimal digits, most significant first
RECURSIVE to_digits(_)
to_digits(n) == IF n < 10 THEN <<n>> ELSE Append(to_digits(n \div 10), n % 10)

\* the value of a string of digits, <<value, fits>>: fits is FALSE once the
\* value has left the u32 range
RECURSIVE digits_value(_, _)
digits_value(acc, ds) ==
    IF ds = <<>> THEN acc
    ELSE IF ~acc[2] \/ acc[1] * 10 + Head(ds) > U32_MAX THEN <<0, FALSE>>
    ELSE digits_value(<<acc[1] * 10 + Head(ds), TRUE>>, Tail(ds))

\* str::parse::<u32>
parse_u32(token) ==
    IF token.w # "" \/ token.d = <<>> THEN Err("invalid digit found in string")
    ELSE LET v == digits_value(<<0, TRUE>>, token.d)
         IN  IF v[2] THEN Ok(v[1]) ELSE Err("number too large to fit in target type")

\* Display for Variant
Variant_to_string(v) ==
    IF v.tag = "Free" THEN <<Word("free")>>
    ELSE <<Word("fixed"), Numeral(to_digits(v.h))>>

\* mutant of Display for Rectangle: height before width
Rectangle_to_string_swapped(r) == <<Numeral(to_digits(r.height)), Numeral(to_digits(r.width))>>

\* Display for Rectangle: "{w} {h}"
Rectangle_to_string(r) == <<Numeral(to_digits(r.width)), Numeral(to_digits(r.height))>>

\* mutant of FromStr for Rectangle: the first number is read as the height
Rectangle_from_str_swapped(line) ==
    IF Len(line) # 2 THEN Err("Invalid format")
    ELSE LET width == parse_u32(line[2])
             height == parse_u32(line[1])
         IN  IF width.tag # "Ok" THEN width
             ELSE IF height.tag # "Ok" THEN height
             ELSE Ok(Rectangle_new(width.val, height.val))

\* FromStr for Rectangle
Rectangle_from_str(line) ==
    IF Len(line) # 2 THEN Err("Invalid format")
    ELSE LET width == parse_u32(line[1])
             height == parse_u32(line[2])
         IN  IF width.tag # "Ok" THEN width
             ELSE IF height.tag # "Ok" THEN height
             ELSE Ok(Rectangle_new(width.val, height.val))

\* Problem::config_str: the three header lines
Problem_config_str(self) ==
    << <<Word("container"), Word("height:")>> \o Variant_to_string(self.variant),
       <<Word("rotations"), Word("allowed:"),
         Word(IF self.allow_rotation THEN "yes" ELSE "no")>>,
       <<Word("number"), Word("of"), Word("rectangles:"),
         Numeral(to_digits(Len(self.rectangles)))>> >>

\* Display for Problem: the header, then one line per rectangle
Problem_to_string(self) ==
    Problem_config_str(self) \o
        [k \in 1..Len(self.rectangles) |-> Rectangle_to_string(self.rectangles[k])]

\* FromStr for Problem, lines 141-143: every remaining line is parsed as a
\* Rectangle, the first error is returned
RECURSIVE collect_rectangles(_, _)
collect_rectangles(acc, lines) ==
    IF lines = <<>> THEN Ok(acc)
    ELSE LET r == Rectangle_from_str(Head(lines))
         IN  IF r.tag # "Ok" THEN r
             ELSE collect_rectangles(Append(acc, r.val), Tail(lines))

\* FromStr for Problem, lines 124-128: the variant line
parse_variant(l1) ==
    IF l1 = <<Word("container"), Word("height:"), Word("free")>> THEN Ok(Free)
    ELSE IF Len(l1) = 4 /\ SubSeq(l1, 1, 3) = <<Word("container"), Word("height:"), Word("fixed")>>
    THEN LET h == parse_u32(l1[4])
         IN  IF h.tag = "Ok" THEN Ok(Fixed(h.val)) ELSE h
    ELSE Err("Invalid format")

\* FromStr for Problem, lines 134-138: the rotation line
parse_rotation(l2) ==
    IF l2 = <<Word("rotations"), Word("allowed:"), Word("yes")>> THEN Ok(TRUE)
    ELSE IF l2 = <<Word("rotations"), Word("allowed:"), Word("no")>> THEN Ok(FALSE)
    ELSE Err("Invalid format")

\* mutant of FromStr for Problem: the third line is not skipped
Problem_from_str_third_line_kept(s) ==
    IF Len(s) < 1 THEN Err("Unexpected end of file: unable to parse problem variant")
    ELSE LET variant == parse_variant(s[1])
         IN  IF variant.tag # "Ok" THEN variant
             ELSE IF Len(s) < 2
             THEN Err("Unexpected end of file: unable to parse problem rotation setting")
             ELSE LET allow_rotation == parse_rotation(s[2])
                  IN  IF allow_rotation.tag # "Ok" THEN allow_rotation
                      ELSE LET rects == collect_rectangles(<<>>, SubSeq(s, 3, Len(s)))
                           IN  IF rects.tag # "Ok" THEN rects
                               ELSE Ok(Problem(variant.val, allow_rotation.val,
                                               rects.val, None))

\* FromStr for Problem
Problem_from_str(s) ==
    IF Len(s) < 1 THEN Err("Unexpected end of file: unable to parse problem variant")
    ELSE LET variant == parse_variant(s[1])
         IN  IF variant.tag # "Ok" THEN variant
             ELSE IF Len(s) < 2
             THEN Err("Unexpected end of file: unable to parse problem rotation setting")
             ELSE LET allow_rotation == parse_rotation(s[2])
                  IN  IF allow_rotation.tag # "Ok" THEN allow_rotation
                      ELSE LET rects == collect_rectangles(<<>>, SubSeq(s, 4, Len(s)))
                           IN  IF rects.tag # "Ok" THEN rects
                               ELSE Ok(Problem(variant.val, allow_rotation.val,
                                               rects.val, None))

\* problem.to_string()
Format ==
    /\ cpc = "new"
    /\ c_text' = Some(Problem_to_string(Unwrap(c_problem)))
    /\ cpc' = "formatted"
    /\ UNCHANGED <<build, guiVars, runVars, genVars, solVars, c_problem, c_parsed>>

\* text.parse::<Problem>()
Parse ==
    /\ cpc = "formatted"
    /\ c_parsed' = Some(Problem_from_str(Unwrap(c_text)))
    /\ cpc' = "parsed"
    /\ UNCHANGED <<build, guiVars, runVars, genVars, solVars, c_problem, c_text>>

-----------------------------------------------------------------------------
(* solution.rs: Solution, Solution::is_valid, container, evaluate *)

Solution(variant, allow_rotation, source, placements) ==
    [variant |-> variant, allow_rotation |-> allow_rotation,
     source |-> source, placements |-> placements]

\* placements.iter().skip(k) paired with p: the index pairs <<i, j>>, j > k
skip_zip(placements, i, k) ==
    [d \in 1..(IF Len(placements) > k THEN Len(placements) - k ELSE 0) |-> <<i, k + d>>]

\* is_valid, lines 27-31: enumerate().flat_map(|(i, p)| repeat(p).zip(skip(i + 1))),
\* from the element with (1-based) index i on
RECURSIVE flat_map_pairs(_, _)
flat_map_pairs(placements, i) ==
    IF i > Len(placements) THEN <<>>
    ELSE skip_zip(placements, i, i) \o flat_map_pairs(placements, i + 1)

\* is_valid, line 32: find(|(p1, p2)| p1.overlaps(p2)) over that iterator
RECURSIVE find_overlap(_, _)
find_overlap(placements, pairs) ==
    IF pairs = <<>> THEN None
    ELSE IF Placement_overlaps(placements[Head(pairs)[1]], placements[Head(pairs)[2]])
         THEN Some(Head(pairs))
         ELSE find_overlap(placements, Tail(pairs))

\* Solution::is_valid
Solution_is_valid(self) ==
    ~IsSome(find_overlap(self.placements, flat_map_pairs(self.placements, 1)))

Max(a, b) == IF a >= b THEN a ELSE b

\* container, lines 68-73: fold((0, 0), max of the top-right corners)
RECURSIVE fold_top_right(_, _)
fold_top_right(acc, placements) ==
    IF placements = <<>> THEN acc
    ELSE fold_top_right(<<Max(acc[1], Head(placements).top_right.x),
                          Max(acc[2], Head(placements).top_right.y)>>,
                        Tail(placements))

\* mutant of Solution::container: the largest top-right corner is taken as the
\* size, without the `+ 1` of the inclusive convention
Solution_container_without_plus_one(self) ==
    LET m == fold_top_right(<<0, 0>>, self.placements)
        x == m[1]
        y == m[2]
    IN  IF ~IsSome(self.source)
        THEN Panic("called Option::unwrap() on a None value")
        ELSE LET p == Unwrap(self.source)
             IN  IF p.variant.tag = "Fixed" /\ y > p.variant.h
                 THEN Err("Solution placements exceed problem bounds")
                 ELSE IF p.variant.tag = "Fixed"
                 THEN Ok(Rectangle_new(x, p.variant.h))
                 ELSE Ok(Rectangle_new(x, y))

\* Solution::container: Ok(Rectangle), Err(bounds) or a panic (`x + 1`, `y + 1`
\* are u32 sums; source.unwrap() panics on None)
Solution_container(self) ==
    LET m == fold_top_right(<<0, 0>>, self.placements)
        x == wrapping32(m[1] + 1)
        y == wrapping32(m[2] + 1)
    IN  IF build = "debug" /\ (m[1] + 1 > U32_MAX \/ m[2] + 1 > U32_MAX)
        THEN Panic("attempt to add with overflow")
        ELSE IF ~IsSome(self.source)
        THEN Panic("called Option::unwrap() on a None value")
        ELSE LET p == Unwrap(self.source)
             IN  IF p.variant.tag = "Fixed" /\ y > p.variant.h
                 THEN Err("Solution placements exceed problem bounds")
                 ELSE IF p.variant.tag = "Fixed"
                 THEN Ok(Rectangle_new(x, p.variant.h))
                 ELSE Ok(Rectangle_new(x, y))

\* evaluate, line 47: the u64 sum of the placements' rectangle areas,
\* <<sum modulo 2^64, whether an addition overflowed>>
RECURSIVE sum_areas(_, _)
sum_areas(acc, placements) ==
    IF placements = <<>> THEN acc
    ELSE sum_areas(<<wrapping64(acc[1] + Rectangle_area(Head(placements).rectangle)),
                     acc[2] \/ acc[1] + Rectangle_area(Head(placements).rectangle) > U64_MAX>>,
                   Tail(placements))

\* evaluate, line 49 and 51: `(min_area as f64 / area as f64) as f32 > 1.0`.
\* 0/0 is NaN and compares false, n/0 is infinite; for the areas of the model
\* (far below 2^24) the f32 quotient exceeds 1.0 exactly when min_area > area
filling_rate_exceeds_one(min_area, area) ==
    IF area = 0 THEN min_area > 0 ELSE min_area > area

Evaluation(container, min_area, empty_area) ==
    [container |-> container, min_area |-> min_area, empty_area |-> empty_area,
     filling_rate |-> <<min_area, Rectangle_area(container)>>]

\* mutant of Solution::evaluate: the is_valid check is left out
Solution_evaluate_unchecked(self) ==
    LET c == Solution_container(self)
    IN  IF c.tag # "Ok" THEN c
        ELSE LET s == sum_areas(<<0, FALSE>>, self.placements)
                 d == as_i64(Rectangle_area(c.val)) - as_i64(s[1])
             IN  IF filling_rate_exceeds_one(s[1], Rectangle_area(c.val))
                 THEN Err("Undetected overlap in solution")
                 ELSE Ok(Evaluation(c.val, s[1], d))

\* Solution::evaluate
Solution_evaluate(self) ==
    IF ~Solution_is_valid(self) THEN Err("Overlap in solution")
    ELSE LET c == Solution_container(self)
         IN  IF c.tag # "Ok" THEN c
             ELSE LET container == c.val
                      s == sum_areas(<<0, FALSE>>, self.placements)
                      min_area == s[1]
                      d == as_i64(Rectangle_area(container)) - as_i64(min_area)
                      empty_area == IF d < -(I64_MAX + 1) THEN d + (U64_MAX + 1) ELSE d
                  IN  IF build = "debug" /\ (s[2] \/ d < -(I64_MAX + 1))
                      THEN Panic("attempt to add or subtract with overflow")
                      ELSE IF filling_rate_exceeds_one(min_area, Rectangle_area(container))
                      THEN Err("Undetected overlap in solution")
                      ELSE Ok(Evaluation(container, min_area, empty_area))

\* FromStr for Solution, lines 154-172: the placement lines zipped with the
\* rectangles of the problem part, each built by Placement::new
parse_placements(lines) ==
    [k \in 1..Len(lines) |-> Placement_new(lines[k].r, lines[k].rot, lines[k].at)]

parse_placements_overflows(lines) ==
    \E k \in 1..Len(lines) : Placement_new_overflows(lines[k].r, lines[k].rot, lines[k].at)

\* runner.rs, lines 45-50: the solver's output is parsed as a Solution and the
\* originating Problem is attached to it
ParseSolution ==
    /\ spc = "idle"
    /\ IsSome(output)
    /\ IsSome(origin)
    /\ LET out == Unwrap(output)
       IN  IF build = "debug" /\ parse_placements_overflows(out.lines)
           THEN /\ spc' = "panicked"
                /\ UNCHANGED solution
           ELSE /\ solution' = Some(Solution(out.variant, out.allow_rotation, origin,
                                             parse_placements(out.lines)))
                /\ spc' = "parsed"
    /\ UNCHANGED <<build, guiVars, runVars, genVars, output, origin, evaluation, codecVars>>

\* runner.rs, line 52: solution.evaluate(duration)
Evaluate ==
    /\ spc = "parsed"
    /\ LET res == Solution_evaluate(Unwrap(solution))
       IN  IF res.tag = "Panic"
           THEN /\ spc' = "panicked"
                /\ UNCHANGED evaluation
           ELSE /\ evaluation' = Some(res)
                /\ spc' = "evaluated"
    /\ UNCHANGED <<build, guiVars, runVars, genVars, output, origin, solution, codecVars>>

\* ghost: a solver that answers the generator's own decomposition, every piece
\* unrotated at its place in the split tree
KnownDecomposition ==
    /\ gpc = "returned"
    /\ ~IsSome(output)
    /\ output' = Some([variant |-> Unwrap(problem).variant,
                       allow_rotation |-> Unwrap(problem).allow_rotation,
                       lines |-> [k \in 1..Len(rectangles) |->
                                    [r |-> rectangles[k], rot |-> Normal, at |-> layout[k]]]])
    /\ origin' = problem
    /\ UNCHANGED <<build, guiVars, runVars, genVars, solution, spc, evaluation, codecVars>>

\* a square source whose width + height is one more than the largest u32
HalfWord == (U32_MAX + 1) \div 2
WideSource == Rectangle_new(HalfWord, HalfWord)

Sources ==
    {Rectangle_new(w, h) : w \in 0..MaxSide, h \in 0..MaxSide} \cup {WideSource}

Init_Gen ==
    /\ build \in Builds
    /\ GuiUnused
    /\ RunUnused
    /\ generator = Generator_new
    /\ g_r \in Sources
    /\ g_n \in 0..MaxN
    /\ g_v \in {Free, Fixed(g_r.height)}
    /\ g_rot \in BOOLEAN
    /\ rectangles = <<>>
    /\ layout = <<>>
    /\ gpc = "enter"
    /\ problem = None
    /\ output = None
    /\ origin = None
    /\ solution = None
    /\ spc = "idle"
    /\ evaluation = None
    /\ c_problem = None
    /\ c_text = None
    /\ c_parsed = None
    /\ cpc = "new"

Next_Gen ==
    \/ GenerateFrom_Enter
    \/ GenerateFrom_Loop
    \/ GenerateFrom_Return
    \/ KnownDecomposition
    \/ ParseSolution
    \/ Evaluate

SpecGen == Init_Gen /\ [][Next_Gen]_vars

\* generate_from, lines 48-51: an iteration that goes through simple_rsplit
GenerateFrom_Cut ==
    GenerateFrom_Loop /\ Len(rectangles') # Len(rectangles)

\* The generator under a fair rng: generate_from runs on, and sample_indices,
\* drawing uniformly, does not avoid the members that can be cut for ever.
SpecGenFair ==
    /\ SpecGen
    /\ WF_vars(GenerateFrom_Enter)
    /\ WF_vars(GenerateFrom_Cut)
    /\ WF_vars(GenerateFrom_Return)

-----------------------------------------------------------------------------
(* problem.rs: Generator (SpecGenerate).  generate() takes the count and   *)
(* the container from the settings, or draws them, clamps the count to the *)
(* container's area and calls generate_from.                               *)

\* the default counts of the source that the model's bound admits
N_DEFAULTS == {n \in {3, 5, 10, 25, 5000} : n <= MaxN}

\* 50 in the source; scaled down with the word, so that the area asked of
\* gen_with_area for a count of the model is a u32, as it is in the source
AVG_RECTANGLE_AREA == 3

\* `(area as f64).sqrt() as u64`
isqrt(area) == CHOOSE k \in 0..area : k * k <= area /\ (k + 1) * (k + 1) > area

\* gen_with_area, lines 43-46: the i in lo..=hi that divide area, ascending
RECURSIVE filter_divisors(_, _, _)
filter_divisors(area, lo, hi) ==
    IF lo > hi THEN <<>>
    ELSE (IF area % lo = 0 THEN <<lo>> ELSE <<>>) \o filter_divisors(area, lo + 1, hi)

\* Rectangle::gen_with_area: the Results rng can lead to.  The sample of the
\* normal distribution is clamped to 0 ..= n - 1 and indexes the divisors; with
\* no divisor (area = 0) the clamp gives -1, the cast an index, and indexing
\* the empty Vec panics.  The sides are cast `as u32`, the area is stored as
\* it was given.
gen_with_area(area) ==
    LET divisors == filter_divisors(area, 1, isqrt(area))
    IN  IF divisors = <<>>
        THEN {Panic("index out of bounds: the len is 0")}
        ELSE UNION {{Ok([width |-> wrapping32(divisors[i]),
                         height |-> wrapping32(area \div divisors[i]),
                         area |-> area]),
                     Ok([width |-> wrapping32(area \div divisors[i]),
                         height |-> wrapping32(divisors[i]),
                         area |-> area])} : i \in 1..Len(divisors)}

\* std::cmp::min
Min(a, b) == IF a <= b THEN a ELSE b

\* generate, lines 169-171: the count set, or one of the defaults
generate_counts(self) ==
    IF IsSome(self.rectangles) THEN {Unwrap(self.rectangles)} ELSE N_DEFAULTS

\* generate, lines 173-177: the container set, or gen_with_area(n * AVG), a
\* u64 product
generate_containers(self, n) ==
    IF IsSome(self.container) THEN {Ok(Unwrap(self.container))}
    ELSE IF build = "debug" /\ n * AVG_RECTANGLE_AREA > U64_MAX
    THEN {Panic("attempt to multiply with overflow")}
    ELSE gen_with_area(wrapping64(n * AVG_RECTANGLE_AREA))

\* generate, lines 180-192: a Fixed variant takes the container's height; an
\* unset variant is drawn
generate_variants(self, r) ==
    IF IsSome(self.variant)
    THEN {IF Unwrap(self.variant).tag = "Fixed" THEN Fixed(r.height) ELSE Unwrap(self.variant)}
    ELSE {Free, Fixed(r.height)}

\* generate, line 194: the rotation setting, or a drawn one
generate_rotations(self) ==
    IF IsSome(self.allow_rotation) THEN {Unwrap(self.allow_rotation)} ELSE BOOLEAN

\* Generator::generate, up to the call of generate_from
Generate ==
    /\ gpc = "generate"
    /\ \E n0 \in generate_counts(generator) :
          \E c \in generate_containers(generator, n0) :
             IF c.tag = "Panic"
             THEN /\ gpc' = "panicked"
                  /\ UNCHANGED <<g_r, g_n, g_v, g_rot>>
             ELSE /\ g_r' = c.val
                  /\ g_n' = Min(n0, Rectangle_area(c.val))
                  /\ g_v' \in generate_variants(generator, c.val)
                  /\ g_rot' \in generate_rotations(generator)
                  /\ gpc' = "enter"
    /\ UNCHANGED <<build, guiVars, runVars, generator, rectangles, layout, problem>>
    /\ UNCHANGED <<solVars, codecVars>>

\* the settings a caller can have made
Generators ==
    [container : {None} \cup {Some(r) : r \in Sources},
     rectangles : {None} \cup {Some(n) : n \in 0..MaxN},
     variant : {None, Some(Free), Some(Fixed(7))},
     allow_rotation : {None, Some(TRUE), Some(FALSE)}]

Init_Generate ==
    /\ build \in Builds
    /\ GuiUnused
    /\ RunUnused
    /\ generator \in Generators
    /\ g_r = Rectangle_new(0, 0)
    /\ g_n = 0
    /\ g_v = Free
    /\ g_rot = FALSE
    /\ rectangles = <<>>
    /\ layout = <<>>
    /\ gpc = "generate"
    /\ problem = None
    /\ output = None
    /\ origin = None
    /\ solution = None
    /\ spc = "unused"
    /\ evaluation = None
    /\ c_problem = None
    /\ c_text = None
    /\ c_parsed = None
    /\ cpc = "unused"

Next_Generate ==
    \/ Generate
    \/ GenerateFrom_Enter
    \/ GenerateFrom_Loop
    \/ GenerateFrom_Return

SpecGenerate == Init_Generate /\ [][Next_Generate]_vars

-----------------------------------------------------------------------------

(* solution.rs: FromStr for Solution.  The text is split at the separator   *)
(* line; the part before it is parsed as a Problem, the lines after it as   *)
(* the placements.                                                          *)

Separator == <<Word("placement"), Word("of"), Word("rectangles")>>

\* str::trim on a part of the text: the blank lines at either end go
RECURSIVE trim_lines(_)
trim_lines(ls) ==
    IF ls # <<>> /\ Head(ls) = <<>> THEN trim_lines(Tail(ls))
    ELSE IF ls # <<>> /\ ls[Len(ls)] = <<>> THEN trim_lines(SubSeq(ls, 1, Len(ls) - 1))
    ELSE ls

\* the first separator line at or after line i, 0 when there is none
RECURSIVE find_separator(_, _)
find_separator(s, i) ==
    IF i > Len(s) THEN 0
    ELSE IF s[i] = Separator THEN i
    ELSE find_separator(s, i + 1)

\* from_str, line 135: s.split("placement of rectangles").map(str::trim), the
\* first two parts (the second is <<>> = None when the text has no separator)
split_parts(s) ==
    LET i == find_separator(s, 1)
        j == IF i = 0 THEN 0 ELSE find_separator(s, i + 1)
    IN  IF i = 0 THEN <<trim_lines(s), None>>
        ELSE <<trim_lines(SubSeq(s, 1, i - 1)),
               Some(trim_lines(SubSeq(s, i + 1, IF j = 0 THEN Len(s) ELSE j - 1)))>>

\* FromStr for Rotation
Rotation_from_str(token) ==
    IF token = Word("yes") THEN Ok(Rotated)
    ELSE IF token = Word("no") THEN Ok(Normal)
    ELSE Err("Unexpected token")

\* from_str, lines 154-169: one placement line under the header's rotation
\* setting, Ok([rot, at]) or the error of the first `?` that fails
parse_placement_line(allow_rotation, tokens) ==
    IF (~allow_rotation /\ Len(tokens) = 2) \/ (allow_rotation /\ Len(tokens) = 3)
    THEN LET x == parse_u32(tokens[Len(tokens) - 1])
             y == parse_u32(tokens[Len(tokens)])
             rot == IF allow_rotation THEN Rotation_from_str(tokens[1]) ELSE Ok(Normal)
         IN  IF x.tag # "Ok" THEN x
             ELSE IF y.tag # "Ok" THEN y
             ELSE IF rot.tag # "Ok" THEN rot
             ELSE Ok([rot |-> rot.val, at |-> Point_new(x.val, y.val)])
    ELSE Err("Invalid format")

\* from_str, lines 150-172: the parsed lines zipped with the rectangles, each
\* pair built by Placement::new, collected up to the first error.  The zip
\* ends with the shorter of the two: a line beyond the last rectangle is
\* dropped whatever it holds.
RECURSIVE zip_collect(_, _, _, _)
zip_collect(acc, allow_rotation, lines, rects) ==
    IF lines = <<>> \/ rects = <<>> THEN Ok(acc)
    ELSE LET res == parse_placement_line(allow_rotation, Head(lines))
         IN  IF res.tag # "Ok" THEN res
             ELSE IF build = "debug"
                     /\ Placement_new_overflows(Head(rects), res.val.rot, res.val.at)
             THEN Panic("attempt to add with overflow")
             ELSE zip_collect(
                      Append(acc, Placement_new(Head(rects), res.val.rot, res.val.at)),
                      allow_rotation, Tail(lines), Tail(rects))

\* FromStr for Solution
Solution_from_str(s) ==
    LET parts == split_parts(s)
        p == Problem_from_str(parts[1])
    IN  IF p.tag # "Ok" THEN p
        ELSE IF ~IsSome(parts[2])
        THEN Err("Unexpected end of file: unable to parse placements")
        ELSE LET n == Len(p.val.rectangles)
                 placements == zip_collect(<<>>, p.val.allow_rotation,
                                           Unwrap(parts[2]), p.val.rectangles)
             IN  IF placements.tag # "Ok" THEN placements
                 ELSE IF Len(placements.val) # n
                 THEN Err("Solution contains a different number of placements than rectangles")
                 ELSE Ok(Solution(p.val.variant, p.val.allow_rotation, None,
                                  placements.val))

\* output.parse::<Solution>() on a solver's output text
ParseOutput ==
    /\ cpc = "output"
    /\ c_parsed' = Some(Solution_from_str(Unwrap(c_text)))
    /\ cpc' = "solution"
    /\ UNCHANGED <<build, guiVars, runVars, genVars, solVars, c_problem, c_text>>

-----------------------------------------------------------------------------
(* Solutions of an arbitrary solver (SpecSol): the harness parses what the  *)
(* solver wrote and evaluates it.                                           *)

\* rectangles a solver may echo (FromStr for Rectangle accepts any two u32)
SolverRects == {Rectangle_new(1, 1), Rectangle_new(2, 1), Rectangle_new(0, 1)}

\* bottom-left points a solver may write (any two u32)
SolverPoints ==
    {Point_new(0, 0), Point_new(1, 0), Point_new(0, 1), Point_new(2, 0),
     Point_new(U32_MAX, 0), Point_new(0, U32_MAX),
     Point_new(U32_MAX - 1, U32_MAX - 1)}

\* the placement lines under a rotation policy, each zipped with its rectangle
SolverLines(allow_rotation) ==
    [r : SolverRects,
     rot : IF allow_rotation THEN Rotations ELSE {Normal},
     at : SolverPoints]

SolverOutput(variant, allow_rotation, lines) ==
    [variant |-> variant, allow_rotation |-> allow_rotation, lines |-> lines]

RectanglesOf(lines) == [k \in 1..Len(lines) |-> lines[k].r]

Init_Sol ==
    /\ build \in Builds
    /\ GuiUnused
    /\ RunUnused
    /\ generator = Generator_new
    /\ g_r = Rectangle_new(0, 0)
    /\ g_n = 0
    /\ g_v = Free
    /\ g_rot = FALSE
    /\ rectangles = <<>>
    /\ layout = <<>>
    /\ gpc = "unused"
    /\ problem = None
    /\ \E v \in {Free, Fixed(2)}, b \in BOOLEAN, k \in 0..MaxPlacements :
          \E ls \in [1..k -> SolverLines(b)] :
             /\ output = Some(SolverOutput(v, b, ls))
             /\ origin = Some(Problem(v, b, RectanglesOf(ls), None))
    /\ solution = None
    /\ spc = "idle"
    /\ evaluation = None
    /\ c_problem = None
    /\ c_text = None
    /\ c_parsed = None
    /\ cpc = "new"

Next_Sol ==
    \/ ParseSolution
    \/ Evaluate

SpecSol == Init_Sol /\ [][Next_Sol]_vars

-----------------------------------------------------------------------------
(* The text codec (SpecCodec): a Problem is formatted and the text parsed.  *)

CodecRects ==
    {Rectangle_new(1, 1), Rectangle_new(12, 8), Rectangle_new(0, 3),
     Rectangle_new(U32_MAX, 10)}

CodecVariants == {Free, Fixed(0), Fixed(7), Fixed(12), Fixed(U32_MAX)}

Init_Codec ==
    /\ build \in Builds
    /\ GuiUnused
    /\ RunUnused
    /\ generator = Generator_new
    /\ g_r = Rectangle_new(0, 0)
    /\ g_n = 0
    /\ g_v = Free
    /\ g_rot = FALSE
    /\ rectangles = <<>>
    /\ layout = <<>>
    /\ gpc = "unused"
    /\ problem = None
    /\ output = None
    /\ origin = None
    /\ solution = None
    /\ spc = "unused"
    /\ evaluation = None
    /\ \E v \in CodecVariants, b \in BOOLEAN, k \in 0..MaxRects,
          src \in {None, Some(Rectangle_new(10, 9))} :
          \E rs \in [1..k -> CodecRects] :
             c_problem = Some(Problem(v, b, rs, src))
    /\ c_text = None
    /\ c_parsed = None
    /\ cpc = "new"

Next_Codec ==
    \/ Format
    \/ Parse

SpecCodec == Init_Codec /\ [][Next_Codec]_vars

-----------------------------------------------------------------------------
(* Texts from outside (SpecText): a problem file, or a solver's output, is  *)
(* parsed.                                                                  *)

Num(n) == Numeral(to_digits(n))

\* first header lines: two the format defines, two it does not
VariantLines ==
    {<<Word("container"), Word("height:"), Word("free")>>,
     <<Word("container"), Word("height:"), Word("fixed"), Num(2)>>,
     <<Word("container"), Word("height:"), Word("fixed"), Word("tall")>>,
     <<Word("container"), Word("height:")>>}

\* second header lines
RotationLines ==
    {<<Word("rotations"), Word("allowed:"), Word("yes")>>,
     <<Word("rotations"), Word("allowed:"), Word("no")>>,
     <<Word("rotations"), Word("allowed:"), Word("maybe")>>}

\* third header lines of a text with k rectangle lines: the count line, a
\* count that is too large or too small, a count that is no number, and a
\* rectangle line where the count should be
CountLines(k) ==
    {<<Word("number"), Word("of"), Word("rectangles:"), Num(k)>>,
     <<Word("number"), Word("of"), Word("rectangles:"), Num(k + 1)>>,
     <<Word("number"), Word("of"), Word("rectangles:"), Num(0)>>,
     <<Word("number"), Word("of"), Word("rectangles:"), Word("many")>>,
     <<Num(1), Num(1)>>}

RectangleLines == {<<Num(1), Num(1)>>, <<Num(2), Num(1)>>}

PlacementLines ==
    {<<Num(0), Num(0)>>, <<Num(1), Num(0)>>,
     <<Word("yes"), Num(0), Num(0)>>, <<Word("no"), Num(1), Num(0)>>,
     <<Num(U32_MAX), Num(0)>>, <<Word("x"), Num(0)>>}

TextUnused ==
    /\ generator = Generator_new
    /\ g_r = Rectangle_new(0, 0)
    /\ g_n = 0
    /\ g_v = Free
    /\ g_rot = FALSE
    /\ rectangles = <<>>
    /\ layout = <<>>
    /\ gpc = "unused"
    /\ problem = None
    /\ output = None
    /\ origin = None
    /\ solution = None
    /\ spc = "unused"
    /\ evaluation = None

Init_Text ==
    /\ build \in Builds
    /\ GuiUnused
    /\ RunUnused
    /\ TextUnused
    /\ c_problem = None
    /\ c_parsed = None
    /\ \/ \E l1 \in VariantLines, l2 \in RotationLines, k \in 0..MaxRects :
            \E l3 \in CountLines(k), rs \in [1..k -> RectangleLines] :
               /\ c_text = Some(<<l1, l2, l3>> \o rs)
               /\ cpc = "formatted"
       \/ \E l1 \in VariantLines, l2 \in RotationLines, k \in 0..MaxRects,
             m \in 0..(MaxPlacements + 1) :
            \E rs \in [1..k -> RectangleLines], ps \in [1..m -> PlacementLines] :
               /\ l1[Len(l1)] \in {Word("free"), Num(2)}
               /\ l2[3] # Word("maybe")
               /\ c_text = Some(<<l1, l2, <<Word("number"), Word("of"),
                                            Word("rectangles:"), Num(k)>> >>
                                \o rs \o <<Separator>> \o ps)
               /\ cpc = "output"

Next_Text ==
    \/ Parse
    \/ ParseOutput

SpecText == Init_Text /\ [][Next_Text]_vars

-----------------------------------------------------------------------------

(* The solver binary (SpecCli): bin/solver.rs main reads a problem, runs    *)
(* solve_async on it and writes the outcome as one record.                  *)

MaxParams == 2

\* problems a problem file may hold
CliP1 == Problem(Free, FALSE, <<Rectangle_new(1, 1)>>, None)
CliP2 == Problem(Fixed(2), TRUE, <<Rectangle_new(2, 1), Rectangle_new(1, 1)>>, None)

\* the input of main: no readable file, a text that is no problem, or a problem
CliInputs ==
    {None,
     Some(<< <<Word("container"), Word("height:")>> >>),
     Some(Problem_to_string(CliP1)),
     Some(Problem_to_string(CliP2))}

\* file names: none (standard input), one with the generator's marker
Filenames == {"", "packt_n2.txt"}

\* filename.contains("packt")
contains_packt(filename) == filename = "packt_n2.txt"

\* placement lines a solver may answer with, in the grammar of the problem
AnswerLines(allow_rotation) ==
    IF allow_rotation
    THEN {<<Word("no"), Num(0), Num(0)>>, <<Word("yes"), Num(2), Num(0)>>,
          <<Word("no"), Num(0), Num(2)>>, <<Word("no"), Num(U32_MAX), Num(0)>>}
    ELSE {<<Num(0), Num(0)>>, <<Num(1), Num(0)>>, <<Num(U32_MAX), Num(0)>>}

\* the problem part a solver may write: the problem it read, or another
\* rectangle in place of the first
Echoes(p) ==
    {p, [p EXCEPT !.rectangles = <<Rectangle_new(2, 2)>> \o Tail(p.rectangles)]}

\* what a solver may write to its standard output: bytes that are no text
\* (from_utf8_lossy turns them into replacement characters), or the problem
\* part, the separator and any placement lines
SolverTexts(p) ==
    {<< <<Word("\\u{FFFD}")>> >>} \cup
    UNION {{Problem_to_string(q) \o <<Separator>> \o ps :
               ps \in UNION {[1..m -> AnswerLines(p.allow_rotation)] :
                                m \in 0..(Len(p.rectangles) + 1)}} :
           q \in Echoes(p)}

(* runner.rs: solve_async.  The future it returns is driven by the event    *)
(* loop (core.run): the lazy closure spawns the child, the chain            *)
(* write_all -> wait_with_output runs under .deadline(start + delta), and   *)
(* once that resolves the output is parsed and evaluated in the same poll.  *)
(* The child's exit and the timer's firing are events of the environment;   *)
(* the deadline combinator looks at its future first and at its timer only  *)
(* when the future is not ready.                                            *)

\* mutant of the drop of the child: the process is left alone
drop_child_forgets(child) == child

\* dropping the future drops the tokio_process Child, which kills a child
\* that is still running
drop_child(child) == IF child = "running" THEN "killed" ELSE child

\* lines 45-52: output.parse::<Solution>(), solution.source(problem),
\* solution.evaluate(duration)
resolve_output(p, text) ==
    LET parsed == Solution_from_str(text)
    IN  IF parsed.tag # "Ok" THEN parsed
        ELSE Solution_evaluate([parsed.val EXCEPT !.source = Some(p)])

\* lines 29-31: command.spawn_async(&handle).expect(..): the child runs, or the
\* expect panics
Run_Spawn ==
    /\ r_pc = "lazy"
    /\ \/ /\ r_child' = "running"
          /\ r_pc' = "writing"
          /\ UNCHANGED m_pc
       \/ /\ r_pc' = "panicked"
          /\ m_pc' = "panicked"
          /\ UNCHANGED r_child
    /\ UNCHANGED <<build, guiVars, genVars, solVars, codecVars, m_input, m_filename, m_problem,
                   m_records, e_retries, e_candidates, r_timer, r_late, r_stdout, r_result,
                   r_parsed>>

\* the child exits, having written `text` to its standard output
Child_Exit ==
    /\ r_child = "running"
    /\ \E text \in SolverTexts(Unwrap(m_problem)) :
          r_stdout' = Some(text)
    /\ r_child' = "exited"
    /\ UNCHANGED <<build, guiVars, genVars, solVars, codecVars, m_input, m_filename, m_pc,
                   m_problem, m_records, e_retries, e_candidates, r_pc, r_timer, r_late,
                   r_result, r_parsed>>

\* the timer set to start + delta fires
Timer_Elapses ==
    /\ r_pc \in {"writing", "waiting"}
    /\ ~r_timer
    /\ r_timer' = TRUE
    /\ r_late' = (r_child = "running")
    /\ UNCHANGED <<build, guiVars, genVars, solVars, codecVars, m_input, m_filename, m_pc,
                   m_problem, m_records, e_retries, e_candidates, r_pc, r_child,
                   r_stdout, r_result, r_parsed>>

\* the invocation resolves to res; the future, and the child with it, is dropped
Resolve(res, parsed) ==
    /\ r_child' = drop_child(r_child)
    /\ r_parsed' = parsed
    /\ IF res.tag = "Panic"
       THEN /\ r_pc' = "panicked"
            /\ m_pc' = "panicked"
            /\ UNCHANGED r_result
       ELSE /\ r_pc' = "resolved"
            /\ r_result' = Some(res)
            /\ UNCHANGED m_pc

\* one poll of the future of solve_async, lines 36-52.  io is what the pipe to
\* the child allows in this poll while the input is being written.
Run_Poll ==
    /\ r_pc \in {"writing", "waiting"}
    /\ \E io \in {"pending", "written", "broken"} :
          LET written == r_pc = "waiting" \/ io = "written"
          IN  /\ r_pc = "waiting" => io = "written"
              /\ IF r_pc = "writing" /\ io = "broken"
                 THEN Resolve(Err("Broken pipe"), FALSE)
                 ELSE IF written /\ r_child = "exited"
                 THEN Resolve(resolve_output(Unwrap(m_problem), Unwrap(r_stdout)), TRUE)
                 ELSE IF r_timer
                 THEN Resolve(Err("deadline has elapsed"), FALSE)
                 ELSE /\ r_pc = "writing" /\ written
                      /\ r_pc' = "waiting"
                      /\ UNCHANGED <<m_pc, r_child, r_result, r_parsed>>
    /\ UNCHANGED <<build, guiVars, genVars, solVars, codecVars, m_input, m_filename, m_problem,
                   m_records, e_retries, e_candidates, r_timer, r_late, r_stdout>>

\* mutant of Record::new: the error of a failed evaluation is left out
Record_new_drops_error(p, eval, filename) ==
    [filename |-> filename,
     n |-> Len(p.rectangles),
     variant |-> Variant_to_string(p.variant),
     rotation_allowed |-> p.allow_rotation,
     perfect_packing |-> contains_packt(filename),
     container |-> IF eval.tag = "Ok"
                   THEN Some(Rectangle_to_string(eval.val.container)) ELSE None,
     min_area |-> IF eval.tag = "Ok" THEN Some(eval.val.min_area) ELSE None,
     empty_area |-> IF eval.tag = "Ok" THEN Some(eval.val.empty_area) ELSE None,
     filling_rate |-> IF eval.tag = "Ok"
                      THEN Some(eval.val.filling_rate) ELSE None,
     error |-> None]

\* bin/solver.rs, Record::new
Record_new(p, eval, filename) ==
    [filename |-> filename,
     n |-> Len(p.rectangles),
     variant |-> Variant_to_string(p.variant),
     rotation_allowed |-> p.allow_rotation,
     perfect_packing |-> contains_packt(filename),
     container |-> IF eval.tag = "Ok"
                   THEN Some(Rectangle_to_string(eval.val.container)) ELSE None,
     min_area |-> IF eval.tag = "Ok" THEN Some(eval.val.min_area) ELSE None,
     empty_area |-> IF eval.tag = "Ok" THEN Some(eval.val.empty_area) ELSE None,
     filling_rate |-> IF eval.tag = "Ok"
                      THEN Some(eval.val.filling_rate) ELSE None,
     error |-> IF eval.tag = "Ok" THEN None ELSE Some(eval.msg)]

\* main, lines 51-74: the input is read and parsed (`?` ends the run with a
\* process failure), then solve_async is called on the problem
Main_ReadProblem ==
    /\ m_pc = "start"
    /\ IF ~IsSome(m_input) \/ Problem_from_str(Unwrap(m_input)).tag # "Ok"
       THEN /\ m_pc' = "failed"
            /\ UNCHANGED <<m_problem, r_pc>>
       ELSE /\ m_problem' = Some(Problem_from_str(Unwrap(m_input)).val)
            /\ m_pc' = "solving"
            /\ r_pc' = "lazy"
    /\ UNCHANGED <<build, guiVars, genVars, solVars, codecVars, m_input, m_filename, m_records,
                   e_retries, e_candidates, r_child, r_timer, r_late, r_stdout, r_result,
                   r_parsed>>

\* main, lines 75-79: core.run(child) has returned; the record is built and
\* written (`?` on the writer ends the run with a process failure)
Main_Record ==
    /\ m_pc = "solving"
    /\ r_pc = "resolved"
    /\ \/ /\ m_records' = Append(m_records,
                                 Record_new(Unwrap(m_problem), Unwrap(r_result), m_filename))
          /\ m_pc' = "exited"
       \/ /\ m_pc' = "failed"
          /\ UNCHANGED m_records
    /\ UNCHANGED <<build, guiVars, genVars, solVars, codecVars, m_input, m_filename, m_problem,
                   e_retries, e_candidates, r_pc, r_child, r_timer, r_late, r_stdout, r_result,
                   r_parsed>>

Init_Cli ==
    /\ build \in Builds
    /\ GuiUnused
    /\ TextUnused
    /\ c_problem = None
    /\ c_text = None
    /\ c_parsed = None
    /\ cpc = "unused"
    /\ m_input \in CliInputs
    /\ m_filename \in Filenames
    /\ m_pc = "start"
    /\ m_problem = None
    /\ m_records = <<>>
    /\ \E a \in 1..MaxParams : e_retries = [k \in 1..a |-> k]
    /\ \E b \in 1..MaxParams : e_candidates = [k \in 1..b |-> k]
    /\ r_pc = "idle"
    /\ r_child = "none"
    /\ r_timer = FALSE
    /\ r_late = FALSE
    /\ r_stdout = None
    /\ r_result = None
    /\ r_parsed = FALSE

Next_Cli ==
    \/ Main_ReadProblem
    \/ Run_Spawn
    \/ Child_Exit
    \/ Timer_Elapses
    \/ Run_Poll
    \/ Main_Record

SpecCli == Init_Cli /\ [][Next_Cli]_vars

-----------------------------------------------------------------------------

(* The workspace (SpecGui): packt-gtk/src/view/workspace.rs.  The widget    *)
(* keeps two lists of entries and a running counter, and hands jobs over a  *)
(* channel to one worker thread (launch_runner), which runs them one at a   *)
(* time and emits Completed(entry) to the widget's event stream.            *)

MaxEntries == 2
MaxJobs == 2

\* Entry::new; id is a ghost that tells the entries apart
Entry_new(id) == [id |-> id, solutions |-> <<>>]

\* VecDeque::remove(i), i counted from 0: <<Option<removed>, the rest>>
VecDeque_remove(v, i) ==
    IF i >= Len(v) THEN <<None, v>>
    ELSE <<Some(v[i + 1]), SubSeq(v, 1, i) \o SubSeq(v, i + 2, Len(v))>>

\* Msg::Add(problem), update lines 138-146
Add ==
    /\ w_added < MaxEntries
    /\ w_added' = w_added + 1
    /\ w_problems_lb' = <<w_added + 1>> \o w_problems_lb
    /\ w_problems' = <<Entry_new(w_added + 1)>> \o w_problems
    /\ w_last' = "ok"
    /\ UNCHANGED <<otherVars, w_selected, w_selected_lb, w_run_btn, gateVars,
                   workerVars, logVars>>

\* the user picks a solver file in solver_chooser
ChooseSolver ==
    /\ ~w_solver
    /\ w_solver' = TRUE
    /\ UNCHANGED <<otherVars, listVars, w_running, w_last, workerVars, logVars>>

\* move_selected(reversed) with row `row` of the source list box selected
\* (0: no row selected).  mem::swap(from_vec, to_vec) is handed the two
\* references themselves and so exchanges the contents of the two deques; the
\* list boxes are exchanged as local handles.
move_selected(reversed, row) ==
    LET from_lb == IF reversed THEN w_selected_lb ELSE w_problems_lb
        to_lb == IF reversed THEN w_problems_lb ELSE w_selected_lb
        from_vec == IF reversed THEN w_selected ELSE w_problems
        to_vec == IF reversed THEN w_problems ELSE w_selected
        removed == VecDeque_remove(from_vec, row - 1)
    IN  IF row = 0 \/ ~IsSome(removed[1])
        THEN \* `?` returns None; the deques stay exchanged
             /\ w_problems' = from_vec
             /\ w_selected' = to_vec
             /\ w_last' = IF reversed THEN "failed to move problem"
                          ELSE "failed to move problems"
             /\ UNCHANGED <<w_problems_lb, w_selected_lb, w_run_btn>>
        ELSE LET from_lb2 == SubSeq(from_lb, 1, row - 1) \o SubSeq(from_lb, row + 1, Len(from_lb))
                 to_lb2 == Append(to_lb, from_lb[row])
             IN  /\ w_problems' = removed[2]
                 /\ w_selected' = <<Unwrap(removed[1])>> \o to_vec
                 /\ w_problems_lb' = IF reversed THEN to_lb2 ELSE from_lb2
                 /\ w_selected_lb' = IF reversed THEN from_lb2 ELSE to_lb2
                 /\ w_run_btn' = TRUE
                 /\ w_last' = "ok"

\* Msg::Enqueue
Enqueue ==
    /\ \E row \in 0..Len(w_problems_lb) : move_selected(FALSE, row)
    /\ UNCHANGED <<otherVars, w_added, gateVars, workerVars, logVars>>

\* Msg::Dequeue
Dequeue ==
    /\ \E row \in 0..Len(w_selected_lb) : move_selected(TRUE, row)
    /\ UNCHANGED <<otherVars, w_added, gateVars, workerVars, logVars>>

\* the jobs run_problem sends for the drained entries, numbered (ghost) on
\* from the last job sent
jobs_of(entries, sent) ==
    [k \in 1..Len(entries) |-> [job |-> sent + k, entry |-> entries[k]]]

\* run_problem, line 291: running += selected.len(), read after the drain
running_after(running, selected) == wrapping32(running + Len(selected))

\* Msg::Run: run_problem
Run ==
    /\ w_run_btn
    /\ Len(w_sent) + Len(w_selected) <= MaxJobs
    /\ IF w_running # 0
       THEN /\ w_last' = "failed to start new jobs -- there are still jobs running"
            /\ UNCHANGED <<w_selected, w_running, w_queue, w_sent>>
       ELSE IF ~w_solver
       THEN /\ w_last' = "Please select a solver first"
            /\ UNCHANGED <<w_selected, w_running, w_queue, w_sent>>
       ELSE IF w_worker = "dead" /\ w_selected # <<>>
       THEN \* the receiver is gone: send fails, the drain drops what is left
            /\ w_last' = "failed to enqueue job"
            /\ w_selected' = <<>>
            /\ UNCHANGED <<w_running, w_queue, w_sent>>
       ELSE /\ w_queue' = w_queue \o jobs_of(w_selected, Len(w_sent))
            /\ w_sent' = w_sent \o [k \in 1..Len(w_selected) |-> Len(w_sent) + k]
            /\ w_selected' = <<>>
            /\ w_running' = running_after(w_running, w_selected')
            /\ w_last' = "ok"
    /\ UNCHANGED <<otherVars, w_problems, w_problems_lb, w_selected_lb, w_run_btn,
                   w_added, w_solver, w_worker, w_job, w_stream, w_started,
                   w_emitted, w_handled>>

\* Msg::Completed(entry): problem_completed
Update_Completed ==
    /\ w_stream # <<>>
    /\ LET entry == Head(w_stream).entry
           index == Len(w_selected)
       IN  /\ w_selected' = Append(w_selected, entry)
           /\ IF index < Len(w_selected_lb)
              THEN /\ w_selected_lb' = [w_selected_lb EXCEPT ![index + 1] = entry.id]
                   /\ w_last' = "ok"
              ELSE /\ w_last' = "failed to get row in selected_lb"
                   /\ UNCHANGED w_selected_lb
    /\ w_stream' = Tail(w_stream)
    /\ w_handled' = Append(w_handled, Head(w_stream).job)
    /\ UNCHANGED <<otherVars, w_problems, w_problems_lb, w_run_btn, w_added, gateVars,
                   w_queue, w_worker, w_job, w_sent, w_started, w_emitted>>

\* mutant of the receive: the job sent last is taken first
channel_recv_last(queue) == <<queue[Len(queue)], SubSeq(queue, 1, Len(queue) - 1)>>

\* rx.iter(): the next job of the channel, in the order of the sends
channel_recv(queue) == <<Head(queue), Tail(queue)>>

\* launch_runner, lines 363-368: the worker takes the next job and spawns its
\* child; a failed spawn panics the thread, and the receiver goes with it
Worker_Recv ==
    /\ w_worker = "idle"
    /\ w_queue # <<>>
    /\ w_started' = Append(w_started, channel_recv(w_queue)[1].job)
    /\ \/ /\ w_worker' = "busy"
          /\ w_job' = Some(channel_recv(w_queue)[1])
          /\ w_queue' = channel_recv(w_queue)[2]
       \/ /\ w_worker' = "dead"
          /\ w_job' = None
          /\ w_queue' = <<>>
    /\ UNCHANGED <<otherVars, listVars, gateVars, w_last, w_stream, w_sent, w_emitted,
                   w_handled>>

\* launch_runner, lines 373-389: the chain resolves before the deadline, to an
\* Evaluation or to an error; the `then` closure pushes that Result, which it
\* does not look into, to the entry and emits Completed(entry)
Worker_Complete ==
    /\ w_worker = "busy"
    /\ LET j == Unwrap(w_job)
           entry == [j.entry EXCEPT !.solutions = Append(@, "EvalResult")]
       IN  /\ w_stream' = Append(w_stream, [tag |-> "Completed", entry |-> entry,
                                            job |-> j.job])
           /\ w_emitted' = Append(w_emitted, j.job)
    /\ w_worker' = "idle"
    /\ w_job' = None
    /\ UNCHANGED <<otherVars, listVars, gateVars, w_last, w_queue, w_sent, w_started,
                   w_handled>>

\* launch_runner, lines 390-392: the deadline passes first; core.run returns
\* the error, which `let _` discards, and the future is dropped with the entry
Worker_Deadline ==
    /\ w_worker = "busy"
    /\ w_worker' = "idle"
    /\ w_job' = None
    /\ UNCHANGED <<otherVars, listVars, gateVars, w_last, w_queue, w_stream, logVars>>

Init_Gui ==
    /\ build \in Builds
    /\ TextUnused
    /\ c_problem = None
    /\ c_text = None
    /\ c_parsed = None
    /\ cpc = "unused"
    /\ RunUnused
    /\ w_problems = <<>>
    /\ w_selected = <<>>
    /\ w_problems_lb = <<>>
    /\ w_selected_lb = <<>>
    /\ w_run_btn \in BOOLEAN
    /\ w_added = 0
    /\ w_solver = FALSE
    /\ w_running = 0
    /\ w_last = "ok"
    /\ w_queue = <<>>
    /\ w_worker = "idle"
    /\ w_job = None
    /\ w_stream = <<>>
    /\ w_sent = <<>>
    /\ w_started = <<>>
    /\ w_emitted = <<>>
    /\ w_handled = <<>>

Next_Gui ==
    \/ Add
    \/ ChooseSolver
    \/ Enqueue
    \/ Dequeue
    \/ Run
    \/ Update_Completed
    \/ Worker_Recv
    \/ Worker_Complete
    \/ Worker_Deadline

SpecGui == Init_Gui /\ [][Next_Gui]_vars

-----------------------------------------------------------------------------

(* Claims about the generator (SpecGen) *)

RECURSIVE area_sum(_)
area_sum(rects) ==
    IF rects = <<>> THEN 0
    ELSE Head(rects).width * Head(rects).height + area_sum(Tail(rects))

SourceArea == g_r.width * g_r.height

\* the piece rectangles[i], laid at layout[i], occupies the unit cell (cx, cy)
Covers(i, cx, cy) ==
    /\ layout[i].x <= cx /\ cx < layout[i].x + rectangles[i].width
    /\ layout[i].y <= cy /\ cy < layout[i].y + rectangles[i].height

\* C2: generator area preservation.  While generate_from cuts, and in the
\* Problem it returns, the areas of the rectangles sum to the area of the source.
C2_AreaPreserved ==
    /\ gpc = "loop" => area_sum(rectangles) = SourceArea
    /\ IsSome(problem) => area_sum(Unwrap(problem).rectangles) = SourceArea

C2_Witness ==
    /\ IsSome(problem)
    /\ IsSome(Unwrap(problem).source)
    /\ Len(Unwrap(problem).rectangles) >= 3
    /\ SourceArea > Len(Unwrap(problem).rectangles)

\* C3 as stated: for every n <= area(source), n = 0 included, the returned
\* Problem has exactly n rectangles.
C3_ExactlyN_Original ==
    IsSome(problem) => Len(Unwrap(problem).rectangles) = g_n

\* C3 as amended: the returned Problem has exactly n rectangles for every
\* 1 <= n <= area(source), and for n = 0 = area(source); for n = 0 and a source
\* of positive area it has one rectangle, the source itself.
C3_ExactlyN ==
    IsSome(problem) =>
        IF g_n = 0 /\ SourceArea > 0
        THEN Unwrap(problem).rectangles = <<g_r>>
        ELSE Len(Unwrap(problem).rectangles) = g_n

C3_Witness ==
    /\ IsSome(problem)
    /\ g_n >= 3
    /\ g_n < SourceArea
    /\ Len(Unwrap(problem).rectangles) = g_n

\* C4: perfect packing.  With every piece of the working set tracked at the
\* place its cuts gave it, the pieces lie inside the source, no two of them
\* share a unit cell, and every unit cell of the source is in exactly one.
C4_PerfectPacking ==
    gpc \in {"loop", "returned"} =>
        /\ Len(layout) = Len(rectangles)
        /\ \A cx \in 0..(g_r.width - 1), cy \in 0..(g_r.height - 1) :
              Cardinality({i \in 1..Len(rectangles) : Covers(i, cx, cy)}) = 1
        /\ \A i \in 1..Len(rectangles) :
              /\ layout[i].x + rectangles[i].width <= g_r.width
              /\ layout[i].y + rectangles[i].height <= g_r.height
              /\ rectangles[i].width >= 1
              /\ rectangles[i].height >= 1

C4_Witness ==
    /\ gpc = "loop"
    /\ Len(rectangles) >= 4
    /\ \E i, j \in 1..Len(rectangles) :
          /\ layout[i].x > 0 /\ layout[j].y > 0
          /\ rectangles[i].width * rectangles[i].height > 1

\* C5: validator soundness.  The solution that puts the generator's pieces
\* at their places in the split tree is parsed without a panic and reported
\* valid by is_valid (and so not refused as overlapping by evaluate).
C5_KnownSolutionValid ==
    /\ spc # "panicked"
    /\ IsSome(solution) => Solution_is_valid(Unwrap(solution))
    /\ IsSome(evaluation) => Unwrap(evaluation).msg # "Overlap in solution"

C5_Witness ==
    /\ spc = "parsed"
    /\ Len(Unwrap(solution).placements) >= 3
    /\ \E i, j \in 1..Len(Unwrap(solution).placements) :
          LET a == Unwrap(solution).placements[i]
              b == Unwrap(solution).placements[j]
          IN  /\ b.bottom_left.x = a.bottom_left.x + a.rectangle.width
              /\ b.bottom_left.y = a.bottom_left.y
    /\ \E i, j \in 1..Len(Unwrap(solution).placements) :
          LET a == Unwrap(solution).placements[i]
              b == Unwrap(solution).placements[j]
          IN  /\ b.bottom_left.y = a.bottom_left.y + a.rectangle.height
              /\ b.bottom_left.x = a.bottom_left.x

-----------------------------------------------------------------------------
(* Claims about placements, the validator and the evaluator (SpecSol) *)

Placements == IF IsSome(solution) THEN Unwrap(solution).placements ELSE <<>>

\* the cells a placement occupies, as the inclusive ranges the claims speak
\* of, computed in the integers from bottom_left, the rectangle and the rotation
x_lo(a) == a.bottom_left.x
x_hi(a) == a.bottom_left.x + Placement_extent(a.rectangle, a.rotation)[1] - 1
y_lo(a) == a.bottom_left.y
y_hi(a) == a.bottom_left.y + Placement_extent(a.rectangle, a.rotation)[2] - 1

RangesIntersect(a, b) ==
    /\ x_lo(a) <= x_hi(b) /\ x_lo(b) <= x_hi(a)
    /\ y_lo(a) <= y_hi(b) /\ y_lo(b) <= y_hi(a)

Positive(a) == a.rectangle.width >= 1 /\ a.rectangle.height >= 1

\* every rectangle placed has positive width and height (the data model's rectangles)
AllPositive == \A i \in 1..Len(Placements) : Positive(Placements[i])

\* the placement reaches no further than the last cell a u32 can name
WithinWord(a) == x_hi(a) <= U32_MAX /\ y_hi(a) <= U32_MAX

\* C6 as stated: for all placements a, b of rectangles with positive width and
\* height, at any bottom-left point, a.overlaps(b) is true exactly when their
\* inclusive cell ranges intersect on both axes; two placements with the same
\* bottom-left point always overlap.
C6_OverlapsIffRangesIntersect ==
    \A i, j \in 1..Len(Placements) :
        LET a == Placements[i]
            b == Placements[j]
        IN  Positive(a) /\ Positive(b) =>
               /\ Placement_overlaps(a, b) <=> RangesIntersect(a, b)
               /\ a.bottom_left = b.bottom_left => Placement_overlaps(a, b)

\* What the code does keep of C6: the equivalence for placements whose cells
\* all have u32 coordinates (no sum in Placement::new overflowed).
C6_WithinWord ==
    \A i, j \in 1..Len(Placements) :
        LET a == Placements[i]
            b == Placements[j]
        IN  Positive(a) /\ Positive(b) /\ WithinWord(a) /\ WithinWord(b) =>
               (Placement_overlaps(a, b) <=> RangesIntersect(a, b))

\* C7 as stated: is_valid is false exactly when some pair i < j overlaps; it is
\* true when the placements (of positive rectangles) have pairwise disjoint cell
\* ranges, and false when two placements put the same rectangle at the same point.
C7_IsValidIffNoOverlappingPair ==
    IsSome(solution) =>
        /\ ~Solution_is_valid(Unwrap(solution)) <=>
              \E i, j \in 1..Len(Placements) :
                  i < j /\ Placement_overlaps(Placements[i], Placements[j])
        /\ (\A i, j \in 1..Len(Placements) :
               /\ Positive(Placements[i])
               /\ i < j => ~RangesIntersect(Placements[i], Placements[j]))
             => Solution_is_valid(Unwrap(solution))
        /\ (\E i, j \in 1..Len(Placements) :
               /\ i < j
               /\ Positive(Placements[i])
               /\ Placements[i].rectangle = Placements[j].rectangle
               /\ Placements[i].rotation = Placements[j].rotation
               /\ Placements[i].bottom_left = Placements[j].bottom_left)
             => ~Solution_is_valid(Unwrap(solution))

\* What the code does keep of C7: its first part, the scan of is_valid against
\* overlaps().
C7_ScanIsExhaustive ==
    IsSome(solution) =>
        (~Solution_is_valid(Unwrap(solution)) <=>
            \E i, j \in 1..Len(Placements) :
                i < j /\ Placement_overlaps(Placements[i], Placements[j]))

\* C8: evaluate returns the overlap error, and no Evaluation, whenever is_valid
\* is false; it returns an Evaluation only when no pair of placements overlaps.
C8_OverlapIsAnError ==
    /\ IsSome(solution) /\ ~Solution_is_valid(Unwrap(solution)) =>
          Solution_evaluate(Unwrap(solution)) = Err("Overlap in solution")
    /\ IsSome(evaluation) /\ Unwrap(evaluation).tag = "Ok" =>
          \A i, j \in 1..Len(Placements) :
              i < j => ~Placement_overlaps(Placements[i], Placements[j])
    /\ IsSome(evaluation) /\ ~Solution_is_valid(Unwrap(solution)) =>
          Unwrap(evaluation) = Err("Overlap in solution")

C8_Witness ==
    /\ spc = "evaluated"
    /\ Len(Placements) >= 2
    /\ ~Solution_is_valid(Unwrap(solution))
    /\ Unwrap(evaluation) = Err("Overlap in solution")

\* the largest top-right coordinates over all placements, 0 for none
MaxTopRight == fold_top_right(<<0, 0>>, Placements)

\* C9 as stated: under Fixed(h), for placements of positive rectangles, the container fails with the bounds error
\* exactly when 1 + the largest top_right.y exceeds h; when it does not fail
\* the container is h high and 1 + the largest top_right.x wide.
C9_FixedHeightBound ==
    IsSome(solution) /\ AllPositive /\ Unwrap(origin).variant.tag = "Fixed" =>
        LET c == Solution_container(Unwrap(solution))
            h == Unwrap(origin).variant.h
        IN  /\ c.tag = "Err" <=> 1 + MaxTopRight[2] > h
            /\ c.tag # "Err" =>
                  /\ c.tag = "Ok"
                  /\ c.val.height = h
                  /\ c.val.width = 1 + MaxTopRight[1]

\* What the code does keep of C9: the same, when no top-right coordinate is
\* the largest u32 (so that `x + 1` and `y + 1` do not overflow).
C9_BelowWordMax ==
    IsSome(solution) /\ AllPositive /\ Unwrap(origin).variant.tag = "Fixed"
      /\ MaxTopRight[1] < U32_MAX /\ MaxTopRight[2] < U32_MAX =>
        LET c == Solution_container(Unwrap(solution))
            h == Unwrap(origin).variant.h
        IN  /\ c.tag = "Err" <=> 1 + MaxTopRight[2] > h
            /\ c.tag # "Err" =>
                  /\ c.tag = "Ok"
                  /\ c.val.height = h
                  /\ c.val.width = 1 + MaxTopRight[1]

\* C10 as stated: every Evaluation that evaluate returns (for placements of
\* positive rectangles) has
\* min_area <= container.area, empty_area >= 0 and filling_rate <= 1.
C10_EvaluationBound ==
    IsSome(evaluation) /\ AllPositive /\ Unwrap(evaluation).tag = "Ok" =>
        LET e == Unwrap(evaluation).val
        IN  /\ e.min_area <= Rectangle_area(e.container)
            /\ e.empty_area >= 0
            /\ e.filling_rate[1] <= e.filling_rate[2]

\* What the code does keep of C10: min_area <= container.area (the
\* filling-rate check refuses everything else, within f32's precision).
C10_MinAreaBound ==
    IsSome(evaluation) /\ Unwrap(evaluation).tag = "Ok" =>
        Unwrap(evaluation).val.min_area <= Rectangle_area(Unwrap(evaluation).val.container)

-----------------------------------------------------------------------------
(* Claims about the text codec (SpecCodec) *)

\* C1 as stated: parsing the text that formatting a Problem p produced yields
\* a Problem equal to p in every field, whether p.source is present or absent.
C1_RoundTrip_Original ==
    cpc = "parsed" => Unwrap(c_parsed) = Ok(Unwrap(c_problem))

\* C1 as amended: parsing the text that formatting p produced yields p with
\* its source absent; it equals p in variant, allow_rotation and rectangles,
\* and in every field exactly when p.source is absent.
C1_RoundTrip ==
    cpc = "parsed" =>
        /\ Unwrap(c_parsed) = Ok([Unwrap(c_problem) EXCEPT !.source = None])
        /\ (Unwrap(c_parsed) = Ok(Unwrap(c_problem))) <=> ~IsSome(Unwrap(c_problem).source)

C1_Witness ==
    /\ cpc = "parsed"
    /\ Unwrap(c_parsed).tag = "Ok"
    /\ Len(Unwrap(c_problem).rectangles) >= 2
    /\ Unwrap(c_problem).rectangles[1] # Unwrap(c_problem).rectangles[2]
    /\ Unwrap(c_problem).variant.tag = "Fixed"
    /\ Unwrap(c_problem).variant.h >= 10
    /\ IsSome(Unwrap(c_problem).source)

-----------------------------------------------------------------------------
(* Claims about texts from outside (SpecText) *)

\* the solver's output, its parts and the Problem its first part parses to
OutputParts == split_parts(Unwrap(c_text))
OutputProblem == Problem_from_str(OutputParts[1])
OutputLines == Unwrap(OutputParts[2])
OutputParsed == Unwrap(c_parsed)

HasPlacementPart ==
    /\ cpc = "solution"
    /\ OutputProblem.tag = "Ok"
    /\ IsSome(OutputParts[2])

\* C11: parsing a solution text fails whenever the number of placement lines
\* after the separator differs from the number of rectangles of the problem
\* part, with fewer lines and with more; no placement line is silently ignored.
C11_PlacementCountMismatchFails ==
    HasPlacementPart /\ Len(OutputLines) # Len(OutputProblem.val.rectangles)
        => OutputParsed.tag # "Ok"

\* what holds of C11: too few placement lines are an error, and a parsed
\* Solution has one placement per rectangle
C11_TooFewLinesFail ==
    HasPlacementPart /\ Len(OutputLines) < Len(OutputProblem.val.rectangles)
        => OutputParsed.tag # "Ok"

C11_OnePlacementPerRectangle ==
    HasPlacementPart /\ OutputParsed.tag = "Ok"
        => Len(OutputParsed.val.placements) = Len(OutputProblem.val.rectangles)

\* C12: with rotations not allowed every three-token placement line is
\* rejected, with rotations allowed every two-token placement line is; hence no
\* parsed Solution with allow_rotation = FALSE holds a Rotated placement.
C12_RotationGrammar ==
    HasPlacementPart =>
        /\ (\E k \in 1..Len(OutputLines) :
               Len(OutputLines[k]) = (IF OutputProblem.val.allow_rotation THEN 2 ELSE 3))
              => OutputParsed.tag # "Ok"
        /\ OutputParsed.tag = "Ok" /\ ~OutputParsed.val.allow_rotation
              => \A k \in 1..Len(OutputParsed.val.placements) :
                    OutputParsed.val.placements[k].rotation = Normal

\* what holds of C12: a line of the wrong shape among the lines that are
\* paired with a rectangle is rejected, and no Rotated placement is parsed
\* under allow_rotation = FALSE
C12_PairedLinesGrammar ==
    HasPlacementPart =>
        /\ (\E k \in 1..Len(OutputLines) :
               /\ k <= Len(OutputProblem.val.rectangles)
               /\ Len(OutputLines[k]) = (IF OutputProblem.val.allow_rotation THEN 2 ELSE 3))
              => OutputParsed.tag # "Ok"
        /\ OutputParsed.tag = "Ok" /\ ~OutputParsed.val.allow_rotation
              => \A k \in 1..Len(OutputParsed.val.placements) :
                    OutputParsed.val.placements[k].rotation = Normal

\* the header lines the format defines
WellFormedVariantLine(l) ==
    \/ l = <<Word("container"), Word("height:"), Word("free")>>
    \/ /\ Len(l) = 4
       /\ SubSeq(l, 1, 3) = <<Word("container"), Word("height:"), Word("fixed")>>
       /\ l[4].w = "" /\ l[4].d # <<>> /\ digits_value(<<0, TRUE>>, l[4].d)[2]

WellFormedRotationLine(l) ==
    /\ Len(l) = 3
    /\ SubSeq(l, 1, 2) = <<Word("rotations"), Word("allowed:")>>
    /\ l[3] \in {Word("yes"), Word("no")}

WellFormedCountLine(l) ==
    /\ Len(l) = 4
    /\ SubSeq(l, 1, 3) = <<Word("number"), Word("of"), Word("rectangles:")>>
    /\ l[4].w = "" /\ l[4].d # <<>>

\* C13: a problem text with a malformed header line (the container-height
\* line, the rotations line or the number-of-rectangles line) parses to an
\* error, never to a Problem.
C13_MalformedHeaderIsAnError ==
    cpc = "parsed" =>
        LET s == Unwrap(c_text)
        IN  (\/ ~WellFormedVariantLine(s[1])
             \/ ~WellFormedRotationLine(s[2])
             \/ ~WellFormedCountLine(s[3]))
                => Unwrap(c_parsed).tag = "Err"

\* what holds of C13: a malformed first or second header line is an error
C13_FirstTwoHeaderLines ==
    cpc = "parsed" =>
        LET s == Unwrap(c_text)
        IN  (~WellFormedVariantLine(s[1]) \/ ~WellFormedRotationLine(s[2]))
                => Unwrap(c_parsed).tag = "Err"

-----------------------------------------------------------------------------
(* Claims about the one-shot invocation and the solver binary (SpecCli) *)

Timeout == Err("deadline has elapsed")

C15_NeverPanics ==
    r_pc # "panicked"

\* what holds of C15: once the child is spawned a build without overflow
\* checks does not panic, whatever the solver writes
C15_NoPanicAfterSpawnInRelease ==
    build = "release" /\ r_child # "none" => r_pc # "panicked"

\* C19: given two parameter lists the harness performs one invocation per
\* element of their Cartesian product and writes exactly one record per
\* combination, going on after an invocation fails.
C19_OneRecordPerCombination ==
    m_pc = "exited" => Len(m_records) = Len(e_retries) * Len(e_candidates)

\* what holds of C19: a run that ends normally has written one record
C19_OneRecordPerRun ==
    m_pc = "exited" => Len(m_records) = 1

\* the solver's output was parsed and is malformed
OutputFormatError ==
    /\ r_parsed
    /\ Solution_from_str(Unwrap(r_stdout)).tag = "Err"

\* C20 as stated: a format error in the solver's output is fatal: the run
\* ends as a process failure and no record is written for the invocation.
C20_OutputFormatErrorIsFatal ==
    m_pc \in {"exited", "failed"} /\ OutputFormatError =>
        /\ m_pc = "failed"
        /\ m_records = <<>>

\* C20 as amended: a format error in the problem input is fatal (process
\* failure, no record); a format error in the solver's output is written as the
\* error field of the invocation's record, with no evaluation fields, and the
\* run ends normally unless writing the record fails.
C20_FormatErrors ==
    /\ m_pc \in {"exited", "failed", "panicked"} /\ ~IsSome(m_problem) =>
          /\ m_pc = "failed"
          /\ m_records = <<>>
    /\ m_pc = "exited" /\ OutputFormatError =>
          /\ Len(m_records) = 1
          /\ m_records[1].error = Some(Solution_from_str(Unwrap(r_stdout)).msg)
          /\ m_records[1].container = None
          /\ m_records[1].min_area = None
    /\ m_pc = "failed" /\ OutputFormatError => m_records = <<>>

C20_Witness ==
    /\ m_pc = "exited"
    /\ OutputFormatError
    /\ Len(m_records) = 1
    /\ IsSome(m_records[1].error)

-----------------------------------------------------------------------------
(* Claims about the workspace and its worker (SpecGui) *)

Jobs == 1..Len(w_sent)
Count(seq, x) == Cardinality({k \in 1..Len(seq) : seq[k] = x})
InQueue(j) == \E k \in 1..Len(w_queue) : w_queue[k].job = j
Current(j) == IsSome(w_job) /\ Unwrap(w_job).job = j
Incomplete == {j \in Jobs : Count(w_handled, j) = 0}

\* C16: for every job sent to the work queue the worker emits exactly one
\* Completed event carrying the job's entry, whatever the job's outcome; stated
\* of the jobs the worker is done with (neither waiting in the channel nor
\* being run).
C16_OneCompletedPerJob ==
    \A j \in Jobs : ~InQueue(j) /\ ~Current(j) => Count(w_emitted, j) = 1

\* what holds of C16: no job is reported twice, and a job whose chain resolves
\* before the deadline is reported with its result pushed to its entry
C16_AtMostOneCompleted ==
    /\ \A j \in Jobs : Count(w_emitted, j) <= 1
    /\ \A k \in 1..Len(w_stream) : w_stream[k].entry.solutions # <<>>

\* C17: while a job of an earlier batch has not completed a new Run is rejected
\* with an error and enqueues nothing, and the running counter always equals
\* the number of submitted jobs that have not completed.
C17_BusyGate ==
    /\ [](w_running = Cardinality(Incomplete))
    /\ [][Run /\ Incomplete # {} =>
            /\ w_last' = "failed to start new jobs -- there are still jobs running"
            /\ w_queue' = w_queue]_vars

\* what holds of C17: the counter never leaves 0
C17_RunningStaysZero ==
    w_running = 0

IsPrefix(s, t) == Len(s) <= Len(t) /\ \A k \in 1..Len(s) : s[k] = t[k]
Increasing(s) == \A k \in 1..Len(s), l \in 1..Len(s) : k < l => s[k] < s[l]

\* C18: the worker runs the jobs one after another in the order they were
\* sent, and the Completed events it emits, and update() handles, come in
\* that order: a job sent later never completes or reports before one sent
\* earlier.
C18_SubmissionOrder ==
    /\ IsPrefix(w_started, w_sent)
    /\ Increasing(w_emitted)
    /\ IsPrefix(w_handled, w_emitted)
    /\ \A j \in Jobs : Current(j) \/ Count(w_emitted, j) > 0 =>
          \A i \in 1..(j - 1) : Count(w_started, i) = 1 /\ ~Current(i) /\ ~InQueue(i)
    /\ \A k \in 1..Len(w_emitted) : Count(w_started, w_emitted[k]) = 1

C18_Witness ==
    /\ w_sent = <<1, 2>>
    /\ w_emitted = <<1, 2>>
    /\ w_handled = <<1, 2>>

-----------------------------------------------------------------------------
(* Further claims about the generator (SpecGen) *)

NonDegenerate(rects) ==
    \A k \in 1..Len(rects) : rects[k].width >= 1 /\ rects[k].height >= 1

\* C21: generator non-degeneracy.  For a source with width >= 1 and height >= 1
\* every rectangle of the working set, after any number of cuts, and every
\* rectangle of the returned Problem has width >= 1 and height >= 1.
C21_NonDegenerate ==
    g_r.width >= 1 /\ g_r.height >= 1 =>
        /\ NonDegenerate(rectangles)
        /\ IsSome(problem) => NonDegenerate(Unwrap(problem).rectangles)

C21_Witness ==
    /\ IsSome(problem)
    /\ g_r.width >= 2 /\ g_r.height >= 2
    /\ Len(Unwrap(problem).rectangles) >= 3
    /\ Len(Unwrap(problem).rectangles) < SourceArea
    /\ \E k \in 1..Len(rectangles) : rectangles[k].width = 1 /\ rectangles[k].height > 1
    /\ \E k \in 1..Len(rectangles) : rectangles[k].width > 1 /\ rectangles[k].height = 1

-----------------------------------------------------------------------------
(* Further claims about the text codec (SpecCodec) *)

\* C22: formatting is a left inverse of parsing on canonical text.  For the
\* text t that formatting a Problem produced, parsing t succeeds and formatting
\* the parsed Problem gives t again, line for line and token for token (the
\* separators Display writes are fixed: one space, one line feed, none at the end).
C22_FormatParse ==
    cpc = "parsed" =>
        /\ Unwrap(c_parsed).tag = "Ok"
        /\ Problem_to_string(Unwrap(c_parsed).val) = Unwrap(c_text)

C22_Witness ==
    /\ cpc = "parsed"
    /\ Unwrap(c_parsed).tag = "Ok"
    /\ Len(Unwrap(c_text)) = 5
    /\ Unwrap(c_text)[4] # Unwrap(c_text)[5]
    /\ Unwrap(c_text)[4][1] # Unwrap(c_text)[4][2]
    /\ Len(Unwrap(c_text)[1]) = 4
    /\ Len(Unwrap(c_text)[1][4].d) = 2
    /\ Problem_to_string(Unwrap(c_parsed).val) = Unwrap(c_text)

-----------------------------------------------------------------------------
(* Further claims about placements and the evaluator (SpecSol) *)

\* C23: overlap symmetry.  For all placements a and b, a.overlaps(b) equals
\* b.overlaps(a); so is_valid, which tests each pair i < j once, reports every
\* overlap that testing the pair the other way round would report.
C23_OverlapSymmetric ==
    /\ \A i, j \in 1..Len(Placements) :
          Placement_overlaps(Placements[i], Placements[j])
              <=> Placement_overlaps(Placements[j], Placements[i])
    /\ IsSome(solution) =>
          ((\E i, j \in 1..Len(Placements) :
               i < j /\ Placement_overlaps(Placements[j], Placements[i]))
             => ~Solution_is_valid(Unwrap(solution)))

C23_Witness ==
    /\ spc = "parsed"
    /\ Len(Placements) = 2
    /\ Placements[1].rectangle # Placements[2].rectangle
    /\ Placements[1].bottom_left.x < Placements[2].bottom_left.x
    /\ Placement_overlaps(Placements[2], Placements[1])
    /\ ~Solution_is_valid(Unwrap(solution))

\* C24 as stated: for an originating problem with Variant Free the container
\* of a solution (placing rectangles of positive width and height) is exactly 1 + the largest top_right.x wide and 1 + the
\* largest top_right.y high, the maxima taken over all placements; it is
\* measured from the origin whatever the smallest bottom-left coordinate is.
C24_FreeContainer ==
    IsSome(solution) /\ Placements # <<>> /\ AllPositive
      /\ Unwrap(origin).variant.tag = "Free" =>
        Solution_container(Unwrap(solution))
            = Ok(Rectangle_new(1 + MaxTopRight[1], 1 + MaxTopRight[2]))

\* What the code does keep of C24: the same, when no top-right coordinate is
\* the largest u32.
C24_BelowWordMax ==
    IsSome(solution) /\ Placements # <<>> /\ AllPositive
      /\ Unwrap(origin).variant.tag = "Free"
      /\ MaxTopRight[1] < U32_MAX /\ MaxTopRight[2] < U32_MAX =>
        Solution_container(Unwrap(solution))
            = Ok(Rectangle_new(1 + MaxTopRight[1], 1 + MaxTopRight[2]))

-----------------------------------------------------------------------------
(* Further claims about the one-shot invocation (SpecCli) *)

\* the invocation returned an Evaluation
Evaluated ==
    /\ r_pc = "resolved"
    /\ IsSome(r_result)
    /\ Unwrap(r_result).tag = "Ok"

\* the rectangles of the problem part of the solver's output
EchoedRectangles == Problem_from_str(split_parts(Unwrap(r_stdout))[1]).val.rectangles

\* C25: in a one-shot invocation the min_area of a returned Evaluation equals
\* the sum of the areas of the rectangles of the Problem handed to solve_async,
\* whatever rectangle list the solver echoes in the problem part of its output.
C25_MinAreaOfHandedProblem ==
    Evaluated =>
        Unwrap(r_result).val.min_area = area_sum(Unwrap(m_problem).rectangles)

\* what holds of C25: min_area is the sum of the areas of the rectangles the
\* solver echoed, and so that of the handed Problem when the echo is faithful
C25_MinAreaOfEchoedRectangles ==
    Evaluated =>
        /\ Unwrap(r_result).val.min_area = area_sum(EchoedRectangles)
        /\ EchoedRectangles = Unwrap(m_problem).rectangles =>
              Unwrap(r_result).val.min_area = area_sum(Unwrap(m_problem).rectangles)

-----------------------------------------------------------------------------
(* Claims about the generator's loop under a fair rng (SpecGenFair) *)

Cuttable(r) == r.width > 1 \/ r.height > 1

\* the contract of the claim: 1 <= n < area(source)
ProperCount == 1 <= g_n /\ g_n < SourceArea

\* while the working set has fewer than n members one of them can be cut
C26_SomeCuttable ==
    gpc = "loop" /\ ProperCount /\ Len(rectangles) < g_n =>
        \E k \in 1..Len(rectangles) : Cuttable(rectangles[k])

\* an iteration that went through simple_rsplit took a member larger than 1x1
C26_UnitSquareNeverCut ==
    [][gpc = "loop" /\ Len(rectangles') # Len(rectangles) =>
          \E i \in 1..Len(rectangles) :
              /\ Cuttable(rectangles[i])
              /\ SubSeq(rectangles', 1, Len(rectangles) - 1) = swap_remove(rectangles, i)]_vars

\* C26: generator termination.  For every source and every n with
\* 1 <= n < area(source): while the working set has fewer than n members it
\* holds a rectangle larger than 1x1, a 1x1 rectangle is never passed to
\* simple_rsplit, and under fair random choice of the member to cut the loop
\* eventually ends with the working set holding n pieces.
C26_Termination ==
    /\ []C26_SomeCuttable
    /\ C26_UnitSquareNeverCut
    /\ (gpc = "enter" /\ ProperCount) ~> (gpc = "returned" /\ Len(rectangles) = g_n)

\* what holds of C26: the two safety parts for every source, and termination
\* for the sources whose width + height is a u32
C26_TerminationWithinWord ==
    /\ []C26_SomeCuttable
    /\ C26_UnitSquareNeverCut
    /\ (gpc = "enter" /\ ProperCount /\ g_r.width + g_r.height <= U32_MAX)
          ~> (gpc = "returned" /\ Len(rectangles) = g_n)

-----------------------------------------------------------------------------
(* Further claims about texts from outside (SpecText) *)

\* the number a token of digits writes
NumberOf(token) == digits_value(<<0, TRUE>>, token.d)[1]

\* the rectangle lines of a problem text, read as the rectangles they list
ListedRectangles(s) ==
    [k \in 1..(Len(s) - 3) |-> Rectangle_new(NumberOf(s[3 + k][1]), NumberOf(s[3 + k][2]))]

\* C27: the count declared on the number-of-rectangles line is not compared
\* with the rectangle lines.  A problem text with a well-formed header that
\* declares N rectangles and lists M, M equal to N or not, parses to a Problem
\* with exactly the M listed rectangles, in order.
C27_CountNotCompared ==
    cpc = "parsed" =>
        LET s == Unwrap(c_text)
        IN  /\ WellFormedVariantLine(s[1])
            /\ WellFormedRotationLine(s[2])
            /\ WellFormedCountLine(s[3])
            => /\ Unwrap(c_parsed).tag = "Ok"
               /\ Unwrap(c_parsed).val.rectangles = ListedRectangles(s)

C27_Witness ==
    /\ cpc = "parsed"
    /\ WellFormedCountLine(Unwrap(c_text)[3])
    /\ NumberOf(Unwrap(c_text)[3][4]) = 3
    /\ Unwrap(c_parsed).tag = "Ok"
    /\ Unwrap(c_parsed).val.rectangles = <<Rectangle_new(2, 1), Rectangle_new(1, 1)>>

-----------------------------------------------------------------------------
(* Claims about Generator::generate (SpecGenerate) *)

\* C28: Generator::generate never panics.  For every count asked for, 0
\* included, with or without a container set, the count is clamped to the
\* container's area before generate_from is called, so its panic on a count
\* above the area is unreachable, and the Problem returned has
\* min(n, area(container)) rectangles.
C28_GenerateNeverPanics ==
    /\ gpc # "panicked"
    /\ gpc = "enter" => g_n <= Rectangle_area(g_r)
    /\ IsSome(problem) /\ IsSome(generator.rectangles) =>
          Len(Unwrap(problem).rectangles)
              = Min(Unwrap(generator.rectangles), Rectangle_area(g_r))

\* what holds of C28: generate_from is never called with a count above the
\* area, and for a count of 1 or more the Problem returned has
\* min(n, area(container)) rectangles
C28_CountClamped ==
    /\ gpc = "enter" => g_n <= Rectangle_area(g_r)
    /\ IsSome(problem) /\ IsSome(generator.rectangles)
          /\ Unwrap(generator.rectangles) >= 1 =>
          Len(Unwrap(problem).rectangles)
              = Min(Unwrap(generator.rectangles), Rectangle_area(g_r))

\* the panic of a generator with no container set comes with the count 0
C28_PanicWithoutContainer ==
    gpc = "panicked" /\ ~IsSome(generator.container) =>
        generator.rectangles = Some(0)

-----------------------------------------------------------------------------
(* Claims about the evaluation of the generator's own packing (SpecGen) *)

\* C29: a perfect packing evaluates as perfect.  For a generated problem with
\* source W x H (W, H >= 1; variant Free or Fixed(H)) the solution that places
\* every piece at its place in the split tree, the source anchored at the
\* origin, is parsed and evaluated without a panic, and the evaluation is
\* Ok with container W x H, min_area = W * H and empty_area = 0.
C29_PerfectPackingEvaluation ==
    /\ spc # "panicked"
    /\ spc = "evaluated" /\ g_r.width >= 1 /\ g_r.height >= 1 =>
          /\ Unwrap(evaluation).tag = "Ok"
          /\ Unwrap(evaluation).val.container = Rectangle_new(g_r.width, g_r.height)
          /\ Unwrap(evaluation).val.min_area = g_r.width * g_r.height
          /\ Unwrap(evaluation).val.empty_area = 0
          /\ Unwrap(evaluation).val.filling_rate = <<SourceArea, SourceArea>>

C29_Witness ==
    /\ spc = "evaluated"
    /\ g_v.tag = "Fixed"
    /\ g_r.width >= 2 /\ g_r.height >= 3
    /\ Len(Unwrap(solution).placements) >= 3
    /\ \E k \in 1..Len(layout) : layout[k].x > 0 /\ layout[k].y > 0
    /\ Unwrap(evaluation).tag = "Ok"
    /\ Unwrap(evaluation).val.empty_area = 0

-----------------------------------------------------------------------------
(* Claims about the two lists of the workspace (SpecGui) *)

Has(seq, e) == \E k \in 1..Len(seq) : seq[k] = e
Without(seq, e) == SelectSeq(seq, LAMBDA x : x # e)

\* the entry e went from the list `from` to the list `to`, and nothing else
\* changed: e is in the destination once and no longer in the source, and
\* the other entries are where they were, in the order they were in
MovedAlone(from, to, from_after, to_after, e) ==
    /\ Count(to_after, e) = 1
    /\ ~Has(from_after, e)
    /\ from_after = Without(from, e)
    /\ Without(to_after, e) = to

\* C30: moving an entry between the workspace lists changes nothing else.
\* After an Enqueue (problems -> selected) or a Dequeue (selected -> problems)
\* that moved the entry at index i, that entry is in the destination list,
\* every other entry is in the list it was in, in the same relative order, and
\* no entry is lost or duplicated.
C30_MoveChangesNothingElse ==
    [][/\ Enqueue /\ w_last' = "ok" =>
             \E i \in 1..Len(w_problems) :
                 MovedAlone(w_problems, w_selected, w_problems', w_selected', w_problems[i])
       /\ Dequeue /\ w_last' = "ok" =>
             \E i \in 1..Len(w_selected) :
                 MovedAlone(w_selected, w_problems, w_selected', w_problems', w_selected[i])]_vars

\* what holds of C30: an Enqueue moves one entry and nothing else; a Dequeue
\* moves one row of the list boxes and nothing else there; and neither loses
\* or duplicates an entry
C30_EnqueueChangesNothingElse ==
    [][/\ Enqueue /\ w_last' = "ok" =>
             \E i \in 1..Len(w_problems) :
                 MovedAlone(w_problems, w_selected, w_problems', w_selected', w_problems[i])
       /\ Dequeue /\ w_last' = "ok" =>
             \E i \in 1..Len(w_selected_lb) :
                 /\ w_selected_lb' = SubSeq(w_selected_lb, 1, i - 1)
                                       \o SubSeq(w_selected_lb, i + 1, Len(w_selected_lb))
                 /\ w_problems_lb' = Append(w_problems_lb, w_selected_lb[i])
       /\ Enqueue \/ Dequeue =>
             \A id \in 1..MaxEntries :
                 Cardinality({k \in 1..Len(w_problems' \o w_selected') :
                                 (w_problems' \o w_selected')[k].id = id})
                   = Cardinality({k \in 1..Len(w_problems \o w_selected) :
                                     (w_problems \o w_selected)[k].id = id})]_vars

====
